---- MODULE Spec2Model ----
(***************************************************************************)
(* Carrie backend: the sliding-window rate limiter, the voice-trace turn   *)
(* aggregator, the /v1/chat stream generator, the upload job ledger with   *)
(* its status lookup and source deletion, and the rate-limited handlers,   *)
(* each as a state machine translated from the Python source.              *)
(*                                                                         *)
(* The components share no state, so each has its own next-state           *)
(* relation and specification over the common variables; a component's     *)
(* specification leaves the other components' variables unchanged.         *)
(***************************************************************************)
EXTENDS Integers, Sequences, FiniteSets, TLC

VARIABLES
    \* ---- middleware/rate_limiter.py
    now,            \* time.time(), in seconds
    requests,       \* RateLimiter.requests: dict client_ip -> list of timestamps
    last_cleanup,   \* RateLimiter.last_cleanup
    response,       \* outcome of the last check_rate_limit call
    admitted,       \* history: per identity, admitted timestamps of the trailing window
    task_pc,        \* per request task of an async handler: where it stands
    task_ip,        \* per request task: the client identity of its request
    \* ---- services/langfuse_tracing.py, routes/voice_trace.py
    langfuse_client,  \* whether _langfuse_client is set (not None)
    voice_sessions,   \* _voice_sessions: dict session_id -> session
    emitted,          \* the Turns the last handler call handed to the tracing sink
    voice_outcome,    \* how the last voice-trace handler call ended
    fn_events,        \* history: per session, the function_call events since its last flush
    last_turn_number, \* history: per session identity, the number of its last Turn
    discarded,        \* history: the function-call records the last call dropped unsent
    \* ---- routes/ask.py generate(), services/streaming_agent.py stream_answer()
    chat_pc,          \* where the stream generator of a /v1/chat request stands
    chat_frames,      \* the frames the generator has yielded, in order
    chat_chunks,      \* the text fragments pulled from the agent, in order
    chat_tracing,     \* whether stream_answer found a tracing client
    chat_done,        \* times the statement `yield "data: [DONE]\n\n"` has run
    \* ---- routes/upload/__init__.py, pdf.py, youtube.py
    upload_jobs,      \* upload_jobs: dict job_id -> job record (a dict)
    worker_pc,        \* per job: the await its background task is suspended at
    worker_in,        \* per job: the arguments of its background task
    worker_chunks,    \* per job: the task's local count of embeddings inserted
    sources,          \* the store's `sources` table: row id -> row
    embeddings,       \* the store's `embeddings` table: source row id -> rows inserted
    terminal_writes,  \* per job: writes that set status to completed or failed
    \* ---- routes/upload/sources.py
    poll,             \* the answer of the last job-status lookup
    deleting,         \* the source row a delete request is removing, between its awaits
    \* ---- clients of the rate limiter
    retired,          \* the identities that have stopped sending requests
    \* ---- routes/ask.py, routes/realtime.py: a request in a rate-limited handler
    trust_proxy,      \* TRUST_PROXY
    h_kind,           \* the handler of the request in hand, or of the last one
    h_request,        \* the request: its peer address and x-forwarded-for header
    h_next,           \* the position in the handler of the step to run next, 0 when idle
    h_work,           \* the steps other than the admission check run for the request
    h_user_id,        \* /v1/chat: the client_ip handed to the agent as user id
    h_status,         \* the status the request ended with, 0 while it runs
    h_suspended       \* the requests suspended at an await of their handler, in order

rlVars == <<now, requests, last_cleanup, response, admitted, task_pc, task_ip>>

voiceVars == <<langfuse_client, voice_sessions, emitted, voice_outcome, fn_events,
               last_turn_number, discarded>>

chatVars == <<chat_pc, chat_frames, chat_chunks, chat_tracing, chat_done>>

jobVars == <<upload_jobs, worker_pc, worker_in, worker_chunks, sources, embeddings,
             terminal_writes>>

handlerVars == <<trust_proxy, h_kind, h_request, h_next, h_work, h_user_id, h_status,
                 h_suspended>>

sourcesVars == <<poll, deleting>>

vars == <<rlVars, voiceVars, chatVars, jobVars, sourcesVars, retired, handlerVars>>

\* What the rate limiter's own steps leave alone.
notRL == <<voiceVars, chatVars, jobVars, sourcesVars, retired, handlerVars>>

notVoice == <<rlVars, chatVars, jobVars, sourcesVars, retired, handlerVars>>

notChat == <<rlVars, voice_sessions, emitted, voice_outcome, fn_events, last_turn_number,
             discarded,
             jobVars, sourcesVars, retired, handlerVars>>

notJobs == <<rlVars, voiceVars, chatVars, sourcesVars, retired, handlerVars>>

\* What a request handler leaves alone beside the limiter's registry.
notHandler == <<now, admitted, task_pc, task_ip, voiceVars, chatVars, jobVars, sourcesVars,
                retired>>

\* Python's None
None == "<None>"

\* Python's None, where the other values are sequences of characters
NoneText == <<None>>

(***************************************************************************)
(* Dictionaries are functions whose DOMAIN is the set of keys present.     *)
(***************************************************************************)
DictDel(d, k) == [x \in (DOMAIN d) \ {k} |-> d[x]]

DictSet(d, k, v) == [x \in (DOMAIN d) \cup {k} |-> IF x = k THEN v ELSE d[x]]

EmptyDict == [x \in {} |-> 0]

(***************************************************************************)
(*                      RATE LIMITER (rate_limiter.py)                     *)
(***************************************************************************)
requests_per_minute == 15

window_seconds == 60

RetryAfter == 60

\* Client identities making requests.
Clients == {"10.0.0.1", "10.0.0.2"}

\* The clock advances ClockStep seconds at a time, MaxTicks times at most.
ClockStep == 30

MaxTicks == 4

\* Requests being handled concurrently by async handlers.
NumTasks == 3

Tasks == 1..NumTasks

\* Clock advances while requests are handled concurrently.
ConcTicks == 2

\* The identity whose requests are handled concurrently: the race the limiter
\* must exclude is between requests of one identity.
TaskClients == {"10.0.0.1"}

\* ts > cutoff, the test both cleanups apply to a stored timestamp.
Fresh(ts, cutoff) == ts > cutoff

FreshOf(timestamps, cutoff) ==
    LET Keep(ts) == Fresh(ts, cutoff)
    IN  SelectSeq(timestamps, Keep)

\* RateLimiter._cleanup_old_requests
CleanupOldRequests(reqs, client_ip, current_time) ==
    IF client_ip \notin DOMAIN reqs
    THEN reqs
    ELSE LET cutoff == current_time - window_seconds
             fresh  == FreshOf(reqs[client_ip], cutoff)
         IN  IF fresh = <<>>
             THEN DictDel(reqs, client_ip)
             ELSE [reqs EXCEPT ![client_ip] = fresh]

CleanupStaleEntriesMutantClearsAll(reqs, last, current_time) ==
    IF current_time - last < window_seconds
    THEN [requests |-> reqs, last_cleanup |-> last]
    ELSE [requests |-> EmptyDict, last_cleanup |-> current_time]

CleanupStaleEntriesMutantEveryCall(reqs, last, current_time) ==
    LET cutoff == current_time - window_seconds
        keep   == {c \in DOMAIN reqs : FreshOf(reqs[c], cutoff) # <<>>}
    IN  [requests     |-> [c \in keep |-> FreshOf(reqs[c], cutoff)],
         last_cleanup |-> current_time]

CleanupStaleEntriesMutantNever(reqs, last, current_time) ==
    [requests |-> reqs, last_cleanup |-> last]

\* RateLimiter._cleanup_stale_entries: the new (requests, last_cleanup)
CleanupStaleEntries(reqs, last, current_time) ==
    IF current_time - last < window_seconds
    THEN [requests |-> reqs, last_cleanup |-> last]
    ELSE LET cutoff == current_time - window_seconds
             keep   == {c \in DOMAIN reqs : FreshOf(reqs[c], cutoff) # <<>>}
         IN  [requests     |-> [c \in keep |-> FreshOf(reqs[c], cutoff)],
              last_cleanup |-> current_time]

\* dict.setdefault(client_ip, [])
SetDefault(reqs, client_ip) ==
    IF client_ip \in DOMAIN reqs THEN reqs ELSE DictSet(reqs, client_ip, <<>>)

\* The tasks whose handler has been admitted and is suspended in its body.
InBody(client_ip) == {t \in Tasks : task_pc[t] = "body" /\ task_ip[t] = client_ip}

\* A check that counts without the requests still being handled, as it would
\* if the append were deferred until the handler's work is done.
ObservedCountMutantDeferred(client_requests, client_ip) ==
    IF Len(client_requests) >= Cardinality(InBody(client_ip))
    THEN Len(client_requests) - Cardinality(InBody(client_ip))
    ELSE 0

\* len(client_requests), read in the same synchronous run as the append
ObservedCount(client_requests, client_ip) == Len(client_requests)

LimitReachedMutantOffByOne(count) == count > requests_per_minute

\* len(client_requests) >= self.requests_per_minute
LimitReached(count) == count >= requests_per_minute

RejectedRequestsMutantRecord(client_requests, current_time) ==
    Append(client_requests, current_time)

\* The identity's sequence when the request is rejected: nothing is appended.
RejectedRequests(client_requests, current_time) == client_requests

\* RateLimiter.check_rate_limit: the new (requests, last_cleanup) and the outcome
CheckRateLimit(reqs, last, client_ip, current_time) ==
    LET swept   == CleanupStaleEntries(reqs, last, current_time)
        pruned  == CleanupOldRequests(swept.requests, client_ip, current_time)
        present == SetDefault(pruned, client_ip)
        client_requests == present[client_ip]
    IN  IF LimitReached(ObservedCount(client_requests, client_ip))
        THEN [requests     |-> [present EXCEPT ![client_ip] =
                                   RejectedRequests(client_requests, current_time)],
              last_cleanup |-> swept.last_cleanup,
              status       |-> 429,
              headers      |-> {<<"Retry-After", RetryAfter>>}]
        ELSE [requests     |-> [present EXCEPT ![client_ip] =
                                   Append(client_requests, current_time)],
              last_cleanup |-> swept.last_cleanup,
              status       |-> 200,
              headers      |-> {}]

\* History of admissions, kept for the trailing window only: an admission at
\* time t can share a window_seconds-wide interval only with admissions
\* later than t - window_seconds.
InWindow(timestamps, current_time) ==
    LET Keep(ts) == ts > current_time - window_seconds
    IN  SelectSeq(timestamps, Keep)

RecordOutcome(client_ip, res) ==
    /\ requests' = res.requests
    /\ last_cleanup' = res.last_cleanup
    /\ response' = [client_ip |-> client_ip, status |-> res.status,
                    headers |-> res.headers, time |-> now]
    /\ admitted' = IF res.status = 200
                   THEN [admitted EXCEPT ![client_ip] = Append(@, now)]
                   ELSE admitted

\* Job identities uuid4 may give, and the uploads clients submit.
JobIds == {"job1", "job2"}

PdfFiles == {"slides.pdf"}

Urls == {"https://youtu.be/vid1"}

\* Pages of a PDF, or chunks of a transcript.
MaxChunks == 2

\* The PDF files uploaded, each page by whether text is extracted from it.
Pdfs == UNION {[1..n -> BOOLEAN] : n \in 0..MaxChunks}

NoInput == [kind |-> None, source |-> None, total |-> 0, pages |-> <<>>]

\* Python's None, where the other values are counts
NoneCount == -1

\* No job-status lookup has been answered.
NoPoll == [code |-> 0, job_id |-> None]

\* No request in hand.
NoRequest == [client |-> NoneText, forwarded |-> NoneText]

Init ==
    /\ now = 0
    /\ requests = EmptyDict
    /\ last_cleanup = 0
    /\ response = [client_ip |-> None, status |-> 0, headers |-> {}, time |-> 0]
    /\ admitted = [c \in Clients |-> <<>>]
    /\ task_pc = [t \in Tasks |-> "idle"]
    /\ task_ip = [t \in Tasks |-> None]
    /\ langfuse_client = FALSE
    /\ voice_sessions = EmptyDict
    /\ emitted = <<>>
    /\ voice_outcome = [op |-> None, session_id |-> None, status |-> 0]
    /\ fn_events = EmptyDict
    /\ last_turn_number = EmptyDict
    /\ discarded = 0
    /\ chat_pc = "idle"
    /\ chat_frames = <<>>
    /\ chat_chunks = <<>>
    /\ chat_tracing = FALSE
    /\ chat_done = 0
    /\ upload_jobs = EmptyDict
    /\ worker_pc = [j \in JobIds |-> "none"]
    /\ worker_in = [j \in JobIds |-> NoInput]
    /\ worker_chunks = [j \in JobIds |-> 0]
    /\ sources = EmptyDict
    /\ embeddings = EmptyDict
    /\ terminal_writes = [j \in JobIds |-> 0]
    /\ retired = {}
    /\ poll = NoPoll
    /\ deleting = None
    /\ trust_proxy = FALSE
    /\ h_kind = None
    /\ h_request = NoRequest
    /\ h_next = 0
    /\ h_work = {}
    /\ h_user_id = NoneText
    /\ h_status = 0
    /\ h_suspended = <<>>

\* time passes
Tick ==
    /\ now < MaxTicks * ClockStep
    /\ now' = now + ClockStep
    /\ admitted' = [c \in Clients |-> InWindow(admitted[c], now + ClockStep)]
    /\ UNCHANGED <<requests, last_cleanup, response, task_pc, task_ip, notRL>>

\* rate_limiter.check_rate_limit(request), called for a request of client_ip
Check(client_ip) ==
    /\ RecordOutcome(client_ip, CheckRateLimit(requests, last_cleanup, client_ip, now))
    /\ UNCHANGED <<now, task_pc, task_ip, notRL>>

RLNext ==
    \/ Tick
    \/ \E c \in Clients : Check(c)

SpecRL == Init /\ [][RLNext]_vars

(***************************************************************************)
(* Identities that come and go.  The limiter has no timer: its registry is *)
(* swept inside check_rate_limit, by whichever request comes first once    *)
(* window_seconds have passed since the last sweep.                        *)
(***************************************************************************)

\* Requests one identity makes at one value of the clock.
MaxBurst == 2

\* The requests of an identity stored with the current time.
Burst(client_ip) ==
    IF client_ip \in DOMAIN requests
    THEN Cardinality({i \in 1..Len(requests[client_ip]) : requests[client_ip][i] = now})
    ELSE 0

\* A request of an identity that is still sending.
PurgeCheck(client_ip) ==
    /\ client_ip \notin retired
    /\ Burst(client_ip) < MaxBurst
    /\ Check(client_ip)

\* An identity with an entry stops sending; some other identity goes on.
Retire(client_ip) ==
    /\ client_ip \in DOMAIN requests
    /\ client_ip \notin retired
    /\ Clients \ (retired \cup {client_ip}) # {}
    /\ retired' = retired \cup {client_ip}
    /\ UNCHANGED <<rlVars, voiceVars, chatVars, jobVars, sourcesVars, handlerVars>>

SomeCheck == \E c \in Clients : PurgeCheck(c)

PurgeNext ==
    \/ Tick
    \/ SomeCheck
    \/ \E c \in Clients : Retire(c)

SpecPurge == Init /\ [][PurgeNext]_vars

\* Time advances and requests of the identities still sending keep arriving.
FairSpecPurge == SpecPurge /\ WF_vars(Tick) /\ WF_vars(SomeCheck)

(***************************************************************************)
(* Requests handled concurrently (routes/ask.py).  Every handler is an     *)
(* `async def` run by one event loop, so a task runs without interleaving  *)
(* from one suspension point (await) to the next.  check_rate_limit is the *)
(* handler's first statement and contains no await: it is one step.        *)
(***************************************************************************)

\* A request of client_ip reaches a rate-limited handler.
Arrive(t, client_ip) ==
    /\ task_pc[t] = "idle"
    /\ task_pc' = [task_pc EXCEPT ![t] = "check"]
    /\ task_ip' = [task_ip EXCEPT ![t] = client_ip]
    /\ UNCHANGED <<now, requests, last_cleanup, response, admitted, notRL>>

\* ask_question, line 34: rate_limiter.check_rate_limit(request); a rejection
\* raises HTTPException(429) out of the handler, an admission goes on to the
\* handler's body, which awaits the agent, the search or the events API.
HandlerCheck(t) ==
    /\ task_pc[t] = "check"
    /\ LET res == CheckRateLimit(requests, last_cleanup, task_ip[t], now)
       IN  /\ RecordOutcome(task_ip[t], res)
           /\ IF res.status = 200
              THEN /\ task_pc' = [task_pc EXCEPT ![t] = "body"]
                   /\ task_ip' = task_ip
              ELSE /\ task_pc' = [task_pc EXCEPT ![t] = "idle"]
                   /\ task_ip' = [task_ip EXCEPT ![t] = None]
    /\ UNCHANGED <<now, notRL>>

\* The awaits of the handler's body are over and the response is sent.
HandlerDone(t) ==
    /\ task_pc[t] = "body"
    /\ task_pc' = [task_pc EXCEPT ![t] = "idle"]
    /\ task_ip' = [task_ip EXCEPT ![t] = None]
    /\ UNCHANGED <<now, requests, last_cleanup, response, admitted, notRL>>

ConcTick ==
    /\ now < ConcTicks * ClockStep
    /\ now' = now + ClockStep
    /\ admitted' = [c \in Clients |-> InWindow(admitted[c], now + ClockStep)]
    /\ UNCHANGED <<requests, last_cleanup, response, task_pc, task_ip, notRL>>

ConcNext ==
    \/ ConcTick
    \/ \E t \in Tasks, c \in TaskClients : Arrive(t, c)
    \/ \E t \in Tasks : HandlerCheck(t)
    \/ \E t \in Tasks : HandlerDone(t)

SpecConc == Init /\ [][ConcNext]_vars

(***************************************************************************)
(*        TURN AGGREGATOR (langfuse_tracing.py, voice_trace.py)            *)
(***************************************************************************)

\* Voice sessions started by clients.
Sessions == {"s1", "s2"}

\* req.client.host of the client that starts a session
UserIds == {"10.0.0.1"}

\* Event contents: what the user said and what the assistant answered.  The
\* empty string is a content the request model accepts.
UserTexts == {"", "A", "C"}

AssistantTexts == {"", "B"}

\* function_call events: the call text and the metadata sent with it, both
\* texts as sequences of characters.  An absent (None) and an empty metadata
\* are both written EmptyDict: the code tests `if metadata`, which is false of
\* both.
WellFormedCalls == {<<"f", "(", "1", ")">>}

\* Call texts of every shape the parsing of _flush_turn tells apart: of the
\* format "function_name({args})", with a "(" and no closing ")", and with no
\* "(" at all.  The request model takes any string.
FnCalls == WellFormedCalls \cup {<<"f", "(", "1">>, <<"g">>}

\* func_result[:1000], the cut _flush_turn applies to a result
ResultLimit == 1000

\* A tool result longer than the cut.
LongResult == [i \in 1..(ResultLimit + 1) |-> "x"]

ShortMetadatas == {EmptyDict, [result |-> <<"r">>]}

Metadatas == ShortMetadatas \cup {[result |-> LongResult]}

\* Turns counted in one session, and function calls recorded in one turn.
MaxTurns == 2

MaxFnCalls == 1

\* Python truth of an Optional[str]: None and "" are false
Truthy(x) == x # None /\ x # ""

\* x or default
OrElse(x, default) == IF Truthy(x) THEN x ELSE default

\* _flush_turn, lines 227-231: the fresh dict that replaces current_turn
ResetTurn(turn) ==
    [user_input |-> None, assistant_output |-> None, function_calls |-> <<>>]

\* create_voice_trace, lines 107-115
NewSession(user_id) ==
    [user_id |-> user_id,
     turn_count |-> 0,
     current_turn |-> [user_input |-> None, assistant_output |-> None,
                       function_calls |-> <<>>]]

\* metadata.get("result", "") if metadata else ""
ResultOf(metadata) ==
    IF metadata # EmptyDict /\ "result" \in DOMAIN metadata THEN metadata.result ELSE <<>>

\* s[:n]
Take(s, n) == IF Len(s) <= n THEN s ELSE SubSeq(s, 1, n)

\* The positions of "(" in a call text.
Parens(func_call) == {i \in 1..Len(func_call) : func_call[i] = "("}

Least(S) == CHOOSE i \in S : \A j \in S : i <= j

\* _flush_turn, lines 204-209: func_call.split("(")[0], or "tool_call"
FuncName(func_call) ==
    IF Parens(func_call) # {}
    THEN SubSeq(func_call, 1, Least(Parens(func_call)) - 1)
    ELSE <<"t", "o", "o", "l", "_", "c", "a", "l", "l">>

\* func_call[len(func_name)+1:-1], or the whole call text
FuncArgs(func_call) ==
    IF Parens(func_call) # {}
    THEN SubSeq(func_call, Least(Parens(func_call)) + 1, Len(func_call) - 1)
    ELSE func_call

\* The most function calls a turn holds in any of the specifications.
MaxTools == MaxFnCalls + 1

\* Where a Langfuse call of _flush_turn may raise: create_trace_id (line 178),
\* the opening of the turn span (181), update_trace (186), span.update (222);
\* and, for the child span of each function call, its opening (211) or its
\* update (215).
FlushPoints == {"ok", "create_trace_id", "start_as_current_span", "update_trace", "update"}

ToolPoints == {"ok", "start_as_current_span", "update"}

\* What the tracing sink does during one flush of a turn with these function
\* calls: the point of the turn span at which it raises, if any, and the same
\* for the child span of each call.  The child spans are reached only when
\* the turn span has been opened and update_trace has returned.
SinkFaults(function_calls) ==
    [at : {"create_trace_id", "start_as_current_span", "update_trace"},
     tools : {[k \in 1..Len(function_calls) |-> "ok"]}]
        \cup [at : {"ok", "update"}, tools : [1..Len(function_calls) -> ToolPoints]]

\* The tracing sink accepts every call.
SinkOk == [at |-> "ok", tools |-> [k \in 1..MaxTools |-> "ok"]]

\* _flush_turn, lines 197-218: the child span of the i-th function call.  When
\* tool_span.update raises (point = "update") the span has been opened with
\* its name and input and has neither output nor tool_index.
ToolSpan(func_data, i, point) ==
    [name       |-> FuncName(func_data.call),
     input      |-> FuncArgs(func_data.call),
     output     |-> IF point = "ok" /\ func_data.result # <<>>
                    THEN Take(func_data.result, ResultLimit)
                    ELSE NoneText,
     tool_index |-> IF point = "ok" THEN i ELSE NoneCount]

\* The loop of lines 197-220: one child span per function call, in order.  An
\* exception of a child span is caught at line 219 and the loop goes on: a
\* call whose span could not be opened leaves no span.
ToolSpans(function_calls, tools) ==
    LET Opened(k) == tools[k] # "start_as_current_span"
        opened    == SelectSeq([k \in 1..Len(function_calls) |-> k], Opened)
    IN  [n \in 1..Len(opened) |->
            ToolSpan(function_calls[opened[n]], opened[n] - 1, tools[opened[n]])]

\* The Turn _flush_turn hands to the sink for a session, numbered turn_num.
\* A Turn whose span.update (line 222) did not return has no output; one whose
\* update_trace (line 186) did not return has its input only: no user, no
\* session, no turn number and no child span.
TurnOf(session_id, session, turn_num, sink) ==
    IF sink.at = "update_trace"
    THEN [session_id     |-> None,
          user_id        |-> None,
          turn_number    |-> NoneCount,
          input          |-> OrElse(session.current_turn.user_input, "No input"),
          output         |-> None,
          function_calls |-> <<>>]
    ELSE [session_id     |-> session_id,
          user_id        |-> session.user_id,
          turn_number    |-> turn_num,
          input          |-> OrElse(session.current_turn.user_input, "No input"),
          output         |-> IF sink.at = "ok"
                             THEN OrElse(session.current_turn.assistant_output, "No output")
                             ELSE None,
          function_calls |-> ToolSpans(session.current_turn.function_calls, sink.tools)]

FlushTurnMutantResetsAll(sessions, session_id, sink) ==
    IF session_id \notin DOMAIN sessions
    THEN [sessions |-> sessions, turns |-> <<>>, raised |-> FALSE]
    ELSE [sessions |-> [s \in DOMAIN sessions |->
                           [sessions[s] EXCEPT
                               !.turn_count = IF s = session_id THEN @ + 1 ELSE @,
                               !.current_turn = ResetTurn(@)]],
          turns    |-> <<TurnOf(session_id, sessions[session_id],
                                sessions[session_id].turn_count + 1, sink)>>,
          raised   |-> FALSE]

\* _flush_turn(session_id).  sink tells which Langfuse calls of lines 178-222
\* raise.  An exception of a child span is caught (lines 219-220).  When a
\* call of the turn span raises, the counter has been incremented, the reset
\* of lines 227-231 is not reached and the exception leaves _flush_turn: before
\* the span is opened nothing has been handed over, after it the sink holds a
\* Turn that was not completed.
\* Gives the new sessions, the Turns handed over and whether it raised.
FlushTurn(sessions, session_id, sink) ==
    IF session_id \notin DOMAIN sessions
    THEN [sessions |-> sessions, turns |-> <<>>, raised |-> FALSE]
    ELSE LET session == sessions[session_id]
             counted == [session EXCEPT !.turn_count = @ + 1]
             turn    == TurnOf(session_id, session, counted.turn_count, sink)
         IN  CASE sink.at = "ok" ->
                    [sessions |-> [sessions EXCEPT ![session_id] =
                                      [counted EXCEPT !.current_turn = ResetTurn(@)]],
                     turns    |-> <<turn>>,
                     raised   |-> FALSE]
               [] sink.at \in {"create_trace_id", "start_as_current_span"} ->
                    [sessions |-> [sessions EXCEPT ![session_id] = counted],
                     turns    |-> <<>>,
                     raised   |-> TRUE]
               [] sink.at \in {"update_trace", "update"} ->
                    [sessions |-> [sessions EXCEPT ![session_id] = counted],
                     turns    |-> <<turn>>,
                     raised   |-> TRUE]

\* add_voice_generation, user_transcript branch (lines 138-143).  `turn` is
\* bound at line 136 to the dict that is current_turn on entry; _flush_turn
\* rebinds session["current_turn"] to a fresh dict, so after a flush the
\* assignment of line 142 goes to the dict the session no longer holds.
OnUserTranscript(sessions, session_id, content, sink) ==
    LET turn == sessions[session_id].current_turn
    IN  IF Truthy(turn.user_input) /\ Truthy(turn.assistant_output)
        THEN FlushTurn(sessions, session_id, sink)
        ELSE [sessions |-> [sessions EXCEPT
                               ![session_id].current_turn.user_input = content],
              turns    |-> <<>>,
              raised   |-> FALSE]

\* add_voice_generation, assistant_response branch (lines 145-150)
OnAssistantResponse(sessions, session_id, content, sink) ==
    LET written == [sessions EXCEPT
                       ![session_id].current_turn.assistant_output = content]
    IN  IF Truthy(written[session_id].current_turn.user_input)
        THEN FlushTurn(written, session_id, sink)
        ELSE [sessions |-> written, turns |-> <<>>, raised |-> FALSE]

\* add_voice_generation, function_call branch (lines 152-158)
OnFunctionCall(sessions, session_id, content, metadata) ==
    [sessions |-> [sessions EXCEPT ![session_id].current_turn.function_calls =
                      Append(@, [call |-> content, result |-> ResultOf(metadata)])],
     turns    |-> <<>>,
     raised   |-> FALSE]

EventTypes == {"user_transcript", "assistant_response", "function_call"}

\* add_voice_generation(trace_id, event_type, content, metadata)
AddVoiceGenerationResult(sessions, session_id, event_type, content, metadata, sink) ==
    IF ~langfuse_client \/ session_id \notin DOMAIN sessions
    THEN [sessions |-> sessions, turns |-> <<>>, raised |-> FALSE]
    ELSE CASE event_type = "user_transcript" ->
                  OnUserTranscript(sessions, session_id, content, sink)
           [] event_type = "assistant_response" ->
                  OnAssistantResponse(sessions, session_id, content, sink)
           [] event_type = "function_call" ->
                  OnFunctionCall(sessions, session_id, content, metadata)

HasPendingMutantCalls(turn) ==
    Truthy(turn.user_input) \/ Truthy(turn.assistant_output) \/ turn.function_calls # <<>>

\* end_voice_trace, line 248: turn["user_input"] or turn["assistant_output"]
HasPending(turn) == Truthy(turn.user_input) \/ Truthy(turn.assistant_output)

\* end_voice_trace(trace_id, ...).  sink: what the Langfuse calls of the
\* flush do; flush_ok: _langfuse_client.flush() of line 253 returns.  A raise
\* in _flush_turn leaves before the pop of line 252; a raise in flush() comes
\* after it.
EndVoiceTraceResult(sessions, session_id, sink, flush_ok) ==
    IF ~langfuse_client \/ session_id \notin DOMAIN sessions
    THEN [sessions |-> sessions, turns |-> <<>>, raised |-> FALSE]
    ELSE LET turn    == sessions[session_id].current_turn
             flushed == IF HasPending(turn)
                        THEN FlushTurn(sessions, session_id, sink)
                        ELSE [sessions |-> sessions, turns |-> <<>>, raised |-> FALSE]
         IN  IF flushed.raised
             THEN flushed
             ELSE [sessions |-> DictDel(flushed.sessions, session_id),
                   turns    |-> flushed.turns,
                   raised   |-> ~flush_ok]

\* What a handler of routes/voice_trace.py answers: it has no try/except, so
\* an exception of the service function becomes the framework's 500.
HandlerStatus(raised) == IF raised THEN 500 ELSE 200

\* init_langfuse() with tracing enabled: a new client is built and assigned
\* (lines 48-52) and, when its auth_check() fails, _langfuse_client is set to
\* None (54-57), whatever it was before the call and whatever sessions are
\* registered.  With tracing disabled the call returns at line 39 and changes
\* nothing.
InitLangfuse(auth_ok) ==
    /\ langfuse_client' = auth_ok
    /\ UNCHANGED <<voice_sessions, emitted, voice_outcome, fn_events, last_turn_number,
                   discarded,
                   notVoice>>

\* POST /v1/voice/trace/start -> create_voice_trace(session_id, user_id)
StartVoiceTrace(session_id, user_id) ==
    /\ voice_sessions' = IF langfuse_client
                         THEN DictSet(voice_sessions, session_id, NewSession(user_id))
                         ELSE voice_sessions
    /\ emitted' = <<>>
    /\ voice_outcome' = [op |-> "start", session_id |-> session_id, status |-> 200]
    /\ fn_events' = IF langfuse_client THEN DictSet(fn_events, session_id, <<>>) ELSE fn_events
    /\ discarded' = 0
    /\ UNCHANGED <<langfuse_client, notVoice>>

\* The function_call event a call of add_voice_generation takes in, if any.
Received(session_id, event_type, content, metadata) ==
    IF /\ langfuse_client
       /\ session_id \in DOMAIN voice_sessions
       /\ event_type = "function_call"
    THEN <<[content |-> content, metadata |-> metadata]>>
    ELSE <<>>

\* History of a handler call: the function_call events a session has taken in
\* since its last Turn.
Observe(session_id, received, res) ==
    fn_events' =
        IF session_id \notin DOMAIN res.sessions
        THEN DictDel(fn_events, session_id)
        ELSE IF res.turns # <<>> /\ ~res.raised
             THEN DictSet(fn_events, session_id, <<>>)
             ELSE DictSet(fn_events, session_id,
                          (IF session_id \in DOMAIN fn_events
                           THEN fn_events[session_id] ELSE <<>>) \o received)

\* History of a handler call, kept when the Turns are being numbered: the
\* number of the last Turn handed to the sink for each session identity.
NumberTurns(numbered) ==
    last_turn_number' =
        IF numbered /\ emitted' # <<>>
        THEN DictSet(last_turn_number, emitted'[1].session_id, emitted'[1].turn_number)
        ELSE last_turn_number

\* POST /v1/voice/trace/event -> add_voice_generation(...)
LogVoiceEvent(session_id, event_type, content, metadata, sink) ==
    /\ session_id \in DOMAIN voice_sessions =>
          voice_sessions[session_id].turn_count < MaxTurns
    /\ LET res == AddVoiceGenerationResult(voice_sessions, session_id, event_type,
                                           content, metadata, sink)
       IN  /\ voice_sessions' = res.sessions
           /\ emitted' = res.turns
           /\ voice_outcome' = [op |-> "event", session_id |-> session_id,
                                status |-> HandlerStatus(res.raised)]
           /\ Observe(session_id, Received(session_id, event_type, content, metadata), res)
           /\ discarded' = 0
    /\ UNCHANGED <<langfuse_client, notVoice>>

\* POST /v1/voice/trace/end -> end_voice_trace(...)
EndVoiceTraceSession(session_id, sink, flush_ok) ==
    /\ session_id \in DOMAIN voice_sessions =>
          voice_sessions[session_id].turn_count < MaxTurns
    /\ LET res == EndVoiceTraceResult(voice_sessions, session_id, sink, flush_ok)
       IN  /\ voice_sessions' = res.sessions
           /\ emitted' = res.turns
           /\ voice_outcome' = [op |-> "end", session_id |-> session_id,
                                status |-> HandlerStatus(res.raised)]
           /\ Observe(session_id, <<>>, res)
           /\ discarded' = IF /\ session_id \in DOMAIN voice_sessions
                              /\ session_id \notin DOMAIN res.sessions
                              /\ res.turns = <<>>
                           THEN Len(voice_sessions[session_id].current_turn.function_calls)
                           ELSE 0
    /\ UNCHANGED <<langfuse_client, notVoice>>

\* The content and metadata an event of each kind carries.
ContentsOf(event_type, UserIn, AssistantIn, FnTexts) ==
    CASE event_type = "user_transcript"    -> UserIn
      [] event_type = "assistant_response" -> AssistantIn
      [] event_type = "function_call"      -> FnTexts

MetadatasOf(event_type, FnMetadatas) ==
    IF event_type = "function_call" THEN FnMetadatas ELSE {EmptyDict}

\* A function_call event is sent while the turn holds fewer than fn_limit calls.
FnRoom(session_id, event_type, fn_limit) ==
    (session_id \in DOMAIN voice_sessions /\ event_type = "function_call")
        => Len(voice_sessions[session_id].current_turn.function_calls) < fn_limit

\* What the sink may do during a handler call whose result, were every
\* Langfuse call to return, is res: the sink is called only by a handler call
\* that flushes a turn, and res.turns then holds that turn with one child span
\* for each of its function calls.
SinkOutcomes(faulty, res) ==
    IF faulty /\ res.turns # <<>>
    THEN SinkFaults(res.turns[1].function_calls)
    ELSE {SinkOk}

\* Whether _langfuse_client.flush() of line 253 returns: it is called by an
\* end for a registered session only.
FlushOutcomes(faulty, session_id) ==
    IF faulty /\ langfuse_client /\ session_id \in DOMAIN voice_sessions
    THEN BOOLEAN
    ELSE {TRUE}

\* A step of the voice-trace handlers, for requests naming a session of
\* SessionIds, user and assistant texts of UserIn and AssistantIn, and
\* function_call events carrying a call text of FnTexts and a metadata of
\* FnMetadatas.
VoiceStepOf(faulty, numbered, SessionIds, UserIn, AssistantIn, FnTexts, FnMetadatas,
            fn_limit) ==
    \/ \E auth_ok \in BOOLEAN : InitLangfuse(auth_ok)
    \/ \E sid \in SessionIds, u \in UserIds :
         StartVoiceTrace(sid, u) /\ NumberTurns(numbered)
    \/ \E sid \in SessionIds, ty \in EventTypes :
         \E content \in ContentsOf(ty, UserIn, AssistantIn, FnTexts),
            md \in MetadatasOf(ty, FnMetadatas) :
         \E sink \in SinkOutcomes(faulty, AddVoiceGenerationResult(
                                             voice_sessions, sid, ty, content, md, SinkOk)) :
            /\ FnRoom(sid, ty, fn_limit)
            /\ LogVoiceEvent(sid, ty, content, md, sink)
            /\ NumberTurns(numbered)
    \/ \E sid \in SessionIds :
         \E sink \in SinkOutcomes(faulty, EndVoiceTraceResult(voice_sessions, sid, SinkOk, TRUE)),
            flush_ok \in FlushOutcomes(faulty, sid) :
            EndVoiceTraceSession(sid, sink, flush_ok) /\ NumberTurns(numbered)

VoiceStep(faulty) ==
    VoiceStepOf(faulty, FALSE, Sessions, UserTexts, AssistantTexts, WellFormedCalls,
                ShortMetadatas, MaxFnCalls)

\* The tracing sink accepts every call.
VoiceNext == VoiceStep(FALSE)

SpecVoice == Init /\ [][VoiceNext]_vars

\* The handlers of one session with a tracing sink that may fail: any Langfuse
\* call may raise, the child span of one function call of a turn and not of
\* another.
VoiceFaultNext ==
    VoiceStepOf(TRUE, FALSE, {"s1"}, UserTexts, AssistantTexts, FnCalls, ShortMetadatas,
                MaxFnCalls + 1)

SpecVoiceFault == Init /\ [][VoiceFaultNext]_vars

\* The handlers of one session identity, the Turns handed to the sink for it
\* being numbered.
TurnsNext ==
    VoiceStepOf(FALSE, TRUE, {"s1"}, UserTexts, AssistantTexts, WellFormedCalls,
                ShortMetadatas, MaxFnCalls)

SpecTurns == Init /\ [][TurnsNext]_vars

\* The handlers of several sessions, requests for one and for another in any
\* order, every text non-empty and every function_call event with a result.
PairNext ==
    VoiceStepOf(FALSE, FALSE, Sessions, UserTexts \ {""}, AssistantTexts \ {""},
                WellFormedCalls, {[result |-> <<"r">>]}, MaxFnCalls)

SpecPair == Init /\ [][PairNext]_vars

\* The handlers of one session, with tool results of every length and a turn
\* of several function calls.
CallsNext ==
    VoiceStepOf(FALSE, FALSE, {"s1"}, UserTexts, AssistantTexts, FnCalls, Metadatas,
                MaxFnCalls + 1)

SpecCalls == Init /\ [][CallsNext]_vars

(***************************************************************************)
(*       STREAMING ANSWER (routes/ask.py, services/streaming_agent.py)     *)
(***************************************************************************)

\* Texts are sequences of characters.  The deltas the model may produce:
Fragments == {<<"h", "i">>, <<"a", "\n", "b">>, <<"[", "D", "O", "N", "E", "]">>, <<>>}

\* Text deltas in one answer.
MaxFragments == 2

\* The identifier create_trace_id returns.
TraceId == <<"7", "f">>

RECURSIVE Escape(_)
\* data.replace('\n', '\\n'): every newline becomes a backslash and an n
Escape(data) ==
    IF data = <<>> THEN <<>>
    ELSE (IF Head(data) = "\n" THEN <<"\\", "n">> ELSE <<Head(data)>>) \o Escape(Tail(data))

\* f"event: trace_id\ndata: {data}\n\n"
TraceIdFrame(data) == [event |-> "trace_id", data |-> data]

\* f"data: {escaped_chunk}\n\n"
TextFrame(data) == [event |-> "", data |-> Escape(data)]

\* "data: [DONE]\n\n"
DoneFrame == [event |-> "", data |-> <<"[", "D", "O", "N", "E", "]">>]

OpeningFramesMutantAlways(langfuse) == <<TraceIdFrame(TraceId)>>

\* stream_answer, lines 252-275 and 283-284, framed by generate() at line 55:
\* what is sent before the first text delta
OpeningFrames(langfuse) == IF langfuse THEN <<TraceIdFrame(TraceId)>> ELSE <<>>

IteratedMutantDetached(pc) == pc \in {"text", "cancelled"}

\* The agent's events are produced on demand: stream_events, stream_answer and
\* generate() are async generators, each resumed only by the async for of its
\* consumer (ask.py 48, streaming_agent.py 245, 278, 285), and none has an
\* except or finally clause that goes on once it is closed.
Iterated(pc) == pc = "text"

\* ask_question, lines 34-71, one synchronous run: check_rate_limit admits
\* the request and stores its timestamp or rejects it with 429; for an
\* admitted request the agent is created and the StreamingResponse returned
\* (built), the server then iterating generate(), or the constructor raises
\* and the request ends 404 or 500 with no stream.
ChatStart(client_ip, built) ==
    /\ chat_pc = "idle"
    /\ LET res == CheckRateLimit(requests, last_cleanup, client_ip, now)
       IN  /\ RecordOutcome(client_ip, res)
           /\ chat_pc' = IF res.status = 200 /\ built THEN "started" ELSE "idle"
    /\ UNCHANGED <<now, task_pc, task_ip, voiceVars, jobVars, sourcesVars, retired,
                   handlerVars, chat_frames, chat_chunks, chat_tracing, chat_done>>

\* stream_answer up to its first yield (lines 213-275): with a tracing client
\* the span is opened and ("trace_id", id) yielded, which generate() frames;
\* without one the generator goes straight to the agent's events.
ChatOpen ==
    /\ chat_pc = "started"
    /\ chat_tracing' = langfuse_client
    /\ chat_frames' = chat_frames \o OpeningFrames(langfuse_client)
    /\ chat_pc' = "text"
    /\ UNCHANGED <<chat_chunks, chat_done, notChat, langfuse_client>>

\* stream_answer finds a tracing client (line 254) and a tracing call raises
\* before the first yield (create_trace_id 256, start_as_current_span 259,
\* update_trace 264): no frame is yielded and the exception leaves generate().
ChatOpenRaises ==
    /\ chat_pc = "started"
    /\ langfuse_client
    /\ chat_tracing' = TRUE
    /\ chat_pc' = "raised"
    /\ UNCHANGED <<chat_frames, chat_chunks, chat_done, notChat, langfuse_client>>

\* stream_events yields a text delta; stream_answer yields ("text", chunk) and
\* generate() frames it (lines 56-59, 278-280, 285-286).
ChatText(chunk) ==
    /\ Iterated(chat_pc)
    /\ Len(chat_chunks) < MaxFragments
    /\ chat_chunks' = Append(chat_chunks, chunk)
    /\ chat_frames' = Append(chat_frames, TextFrame(chunk))
    /\ UNCHANGED <<chat_pc, chat_tracing, chat_done, notChat, langfuse_client>>

\* The agent's events are exhausted: stream_answer returns, the async for of
\* generate() ends and line 62 yields the completion marker.
ChatComplete ==
    /\ Iterated(chat_pc)
    /\ chat_frames' = Append(chat_frames, DoneFrame)
    /\ chat_done' = chat_done + 1
    /\ chat_pc' = "finished"
    /\ UNCHANGED <<chat_chunks, chat_tracing, notChat, langfuse_client>>

\* agent.stream_answer raises before it looks for a tracing client (lines
\* 213-240) or after its first yield (the agent run, a tool, the model API,
\* span.update): generate() has no try/except, so the exception leaves the
\* generator and the response ends where it stands.
ChatRaise ==
    /\ chat_pc \in {"started", "text"}
    /\ chat_pc' = "raised"
    /\ UNCHANGED <<chat_frames, chat_chunks, chat_tracing, chat_done, notChat, langfuse_client>>

\* The consumer disconnects: the server stops iterating generate() and closes
\* it where it is suspended.
ChatDisconnect ==
    /\ chat_pc \in {"started", "text"}
    /\ chat_pc' = "cancelled"
    /\ UNCHANGED <<chat_frames, chat_chunks, chat_tracing, chat_done, notChat, langfuse_client>>

ChatNext ==
    \/ \E auth_ok \in BOOLEAN : InitLangfuse(auth_ok)
    \/ \E c \in Clients, built \in BOOLEAN : ChatStart(c, built)
    \/ ChatOpen
    \/ ChatOpenRaises
    \/ \E chunk \in Fragments : ChatText(chunk)
    \/ ChatComplete
    \/ ChatRaise
    \/ ChatDisconnect

SpecChat == Init /\ [][ChatNext]_vars

(***************************************************************************)
(*          JOB LEDGER (routes/upload/__init__.py, pdf.py, youtube.py)     *)
(***************************************************************************)

\* A message: its text and the values formatted into it.
Msg(text) == [text |-> text, args |-> <<>>]

MsgOf(text, args) == [text |-> text, args |-> args]

\* Exceptions an awaited call of a worker may raise; str(e) is the text.
Errors == {"connection lost"}

\* YouTubeTranscriber.extract_video_id(url): the video id, or None
ExtractVideoId(url) == IF url = "https://youtu.be/vid1" THEN "vid1" ELSE None

IsTerminal(job) == job.status \in {"completed", "failed"}

SetFieldMutantWholesale(jobs, job_id, field, value) ==
    DictSet(jobs, job_id, DictSet([status |-> "processing"], field, value))

\* upload_jobs[job_id][field] = value
SetField(jobs, job_id, field, value) ==
    [jobs EXCEPT ![job_id] = DictSet(@, field, value)]

\* The awaits a worker can be suspended at.
Awaits == {"await_supabase", "await_select", "await_transcribe", "await_insert_source",
           "await_chunk", "await_insert_embedding", "await_update_source"}

ExistingMutantCounted(source_type, source_id) ==
    {id \in DOMAIN sources : /\ sources[id].source_type = source_type
                             /\ sources[id].source_id = source_id
                             /\ sources[id].chunk_count > 0}

\* Rows of the sources table with this type and source id (the .select().eq().eq())
Existing(source_type, source_id) ==
    {id \in DOMAIN sources : /\ sources[id].source_type = source_type
                             /\ sources[id].source_id = source_id}

PcAfterAlreadyProcessedMutantNoReturn == "await_insert_source"

\* pdf.py line 40, youtube.py line 56: `return` after the already-processed write
PcAfterAlreadyProcessed == "done"

OnExceptionMutantNotCaught(jobs, job_id, e) == jobs

\* except Exception as e (pdf.py 83-89, youtube.py 108-114)
OnException(jobs, job_id, e) ==
    DictSet(jobs, job_id, [status |-> "failed", message |-> Msg("Processing failed"),
                           error |-> Msg(e)])

\* The number of terminal writes a step makes to a job's record.
CountTerminal(job_id) ==
    terminal_writes' =
        [terminal_writes EXCEPT ![job_id] =
            IF upload_jobs'[job_id] # upload_jobs[job_id] /\ IsTerminal(upload_jobs'[job_id])
            THEN @ + 1 ELSE @]

UploadPdfMutantNoRecord(job_id, filename, pages) ==
    /\ job_id \notin DOMAIN upload_jobs
    /\ worker_pc[job_id] = "none"
    /\ worker_pc' = [worker_pc EXCEPT ![job_id] = "scheduled"]
    /\ worker_in' = [worker_in EXCEPT ![job_id] =
                        [kind |-> "pdf", source |-> filename, total |-> 0, pages |-> pages]]
    /\ UNCHANGED <<upload_jobs, worker_chunks, sources, embeddings, terminal_writes, notJobs>>

\* POST /api/upload/pdf with a valid, non-empty PDF (pdf.py 133-151)
UploadPdf(job_id, filename, pages) ==
    /\ job_id \notin DOMAIN upload_jobs
    /\ upload_jobs' = DictSet(upload_jobs, job_id,
                              [status |-> "processing",
                               message |-> Msg("Starting PDF processing..."),
                               source_id |-> filename,
                               source_type |-> "pdf"])
    /\ worker_pc' = [worker_pc EXCEPT ![job_id] = "scheduled"]
    /\ worker_in' = [worker_in EXCEPT ![job_id] =
                        [kind |-> "pdf", source |-> filename, total |-> 0, pages |-> pages]]
    /\ UNCHANGED <<worker_chunks, sources, embeddings, terminal_writes, notJobs>>

\* POST /api/upload/youtube with a URL that has a video id (youtube.py 141-167)
UploadYoutube(job_id, url, total) ==
    /\ job_id \notin DOMAIN upload_jobs
    /\ ExtractVideoId(url) # None
    /\ upload_jobs' = DictSet(upload_jobs, job_id,
                              [status |-> "processing",
                               message |-> Msg("Starting transcription..."),
                               source_id |-> ExtractVideoId(url),
                               source_type |-> "youtube"])
    /\ worker_pc' = [worker_pc EXCEPT ![job_id] = "scheduled"]
    /\ worker_in' = [worker_in EXCEPT ![job_id] =
                        [kind |-> "youtube", source |-> url, total |-> total, pages |-> <<>>]]
    /\ UNCHANGED <<worker_chunks, sources, embeddings, terminal_writes, notJobs>>

\* SlideProcessor.stream_from_bytes (process_slides.py 75-103): the pages of
\* the file in order, a page with no text skipped (line 86), a chunk yielded
\* for each other page with its page number and the number of pages.
TextPages(pages) == {k \in 1..Len(pages) : pages[k]}

\* page_num of the chunk yielded after chunk_count chunks
PageNum(pages, chunk_count) ==
    CHOOSE k \in TextPages(pages) :
        Cardinality({i \in TextPages(pages) : i < k}) = chunk_count

IsWorker(job_id, kind, pc) == worker_pc[job_id] = pc /\ worker_in[job_id].kind = kind

GoTo(job_id, pc) == worker_pc' = [worker_pc EXCEPT ![job_id] = pc]

\* process_pdf_upload, lines 20-25: up to `await get_supabase()`
PdfRun(j) ==
    /\ IsWorker(j, "pdf", "scheduled")
    /\ upload_jobs' = SetField(upload_jobs, j, "message",
                               Msg("Checking if PDF already exists..."))
    /\ GoTo(j, "await_supabase")
    /\ UNCHANGED <<worker_in, worker_chunks, sources, embeddings, terminal_writes, notJobs>>

\* lines 25-30: get_supabase() returned; up to the await of the select
PdfConnected(j) ==
    /\ IsWorker(j, "pdf", "await_supabase")
    /\ GoTo(j, "await_select")
    /\ UNCHANGED <<upload_jobs, worker_in, worker_chunks, sources, embeddings,
                   terminal_writes, notJobs>>

\* lines 28-49: the select returned; the already-processed write, or up to the
\* await of the insert of the source record
PdfSelected(j) ==
    /\ IsWorker(j, "pdf", "await_select")
    /\ LET filename == worker_in[j].source
       IN  IF Existing("pdf", filename) # {}
           THEN /\ upload_jobs' = DictSet(upload_jobs, j,
                       [status |-> "failed",
                        message |-> Msg("PDF already processed"),
                        source_id |-> filename,
                        error |-> MsgOf("PDF {} has already been processed and uploaded",
                                        <<filename>>)])
                /\ GoTo(j, PcAfterAlreadyProcessed)
           ELSE /\ upload_jobs' = upload_jobs
                /\ GoTo(j, "await_insert_source")
    /\ CountTerminal(j)
    /\ UNCHANGED <<worker_in, worker_chunks, sources, embeddings, notJobs>>

\* lines 49-57: the source record is inserted; up to the first chunk
PdfSourceInserted(j) ==
    /\ IsWorker(j, "pdf", "await_insert_source")
    /\ sources' = DictSet(sources, j, [source_type |-> "pdf",
                                       source_id |-> worker_in[j].source,
                                       chunk_count |-> 0])
    /\ worker_chunks' = [worker_chunks EXCEPT ![j] = 0]
    /\ GoTo(j, "await_chunk")
    /\ UNCHANGED <<upload_jobs, worker_in, embeddings, terminal_writes, notJobs>>

\* lines 57-68: stream_from_bytes yields a chunk; up to the await of its insert
PdfChunk(j) ==
    /\ IsWorker(j, "pdf", "await_chunk")
    /\ worker_chunks[j] < Cardinality(TextPages(worker_in[j].pages))
    /\ upload_jobs' = SetField(upload_jobs, j, "message",
                               MsgOf("Processing slide {}/{}...",
                                     <<PageNum(worker_in[j].pages, worker_chunks[j]),
                                       Len(worker_in[j].pages)>>))
    /\ GoTo(j, "await_insert_embedding")
    /\ UNCHANGED <<worker_in, worker_chunks, sources, embeddings, terminal_writes, notJobs>>

\* lines 68-70: the embedding is inserted and counted
PdfEmbeddingInserted(j) ==
    /\ IsWorker(j, "pdf", "await_insert_embedding")
    /\ embeddings' = DictSet(embeddings, j,
                             IF j \in DOMAIN embeddings THEN embeddings[j] + 1 ELSE 1)
    /\ worker_chunks' = [worker_chunks EXCEPT ![j] = @ + 1]
    /\ upload_jobs' = SetField(upload_jobs, j, "chunk_count", worker_chunks[j] + 1)
    /\ GoTo(j, "await_chunk")
    /\ CountTerminal(j)
    /\ UNCHANGED <<worker_in, sources, notJobs>>

\* line 57 -> 73: the chunks are exhausted; up to the await of the final update
PdfExhausted(j) ==
    /\ IsWorker(j, "pdf", "await_chunk")
    /\ worker_chunks[j] = Cardinality(TextPages(worker_in[j].pages))
    /\ GoTo(j, "await_update_source")
    /\ UNCHANGED <<upload_jobs, worker_in, worker_chunks, sources, embeddings,
                   terminal_writes, notJobs>>

\* lines 73-81: the source record has its count; the completed write
PdfSourceUpdated(j) ==
    /\ IsWorker(j, "pdf", "await_update_source")
    /\ sources' = IF j \in DOMAIN sources
                  THEN [sources EXCEPT ![j].chunk_count = worker_chunks[j]]
                  ELSE sources
    /\ upload_jobs' = DictSet(upload_jobs, j,
                              [status |-> "completed",
                               message |-> MsgOf("Successfully processed {} slides",
                                                 <<worker_chunks[j]>>),
                               source_id |-> worker_in[j].source,
                               chunk_count |-> worker_chunks[j]])
    /\ GoTo(j, "done")
    /\ CountTerminal(j)
    /\ UNCHANGED <<worker_in, worker_chunks, embeddings, notJobs>>

\* process_youtube_upload, lines 20-39: up to `await get_supabase()`
YtRun(j) ==
    /\ IsWorker(j, "youtube", "scheduled")
    /\ LET video_id == ExtractVideoId(worker_in[j].source)
       IN  IF video_id = None
           THEN /\ upload_jobs' = DictSet(upload_jobs, j,
                       [status |-> "failed",
                        message |-> Msg("Could not extract video ID from URL"),
                        error |-> MsgOf("Invalid YouTube URL: {}", <<worker_in[j].source>>)])
                /\ GoTo(j, "done")
           ELSE /\ upload_jobs' =
                       SetField(SetField(upload_jobs, j, "source_id", video_id),
                                j, "message", Msg("Checking if video already exists..."))
                /\ GoTo(j, "await_supabase")
    /\ CountTerminal(j)
    /\ UNCHANGED <<worker_in, worker_chunks, sources, embeddings, notJobs>>

\* lines 39-45
YtConnected(j) ==
    /\ IsWorker(j, "youtube", "await_supabase")
    /\ GoTo(j, "await_select")
    /\ UNCHANGED <<upload_jobs, worker_in, worker_chunks, sources, embeddings,
                   terminal_writes, notJobs>>

\* lines 43-67: the select returned; the already-processed write, or up to the
\* await of the transcription
YtSelected(j) ==
    /\ IsWorker(j, "youtube", "await_select")
    /\ LET video_id == ExtractVideoId(worker_in[j].source)
       IN  IF Existing("youtube", video_id) # {}
           THEN /\ upload_jobs' = DictSet(upload_jobs, j,
                       [status |-> "failed",
                        message |-> Msg("Video already processed"),
                        source_id |-> video_id,
                        error |-> MsgOf("Video {} has already been transcribed and uploaded",
                                        <<video_id>>)])
                /\ GoTo(j, PcAfterAlreadyProcessed)
           ELSE /\ upload_jobs' = SetField(upload_jobs, j, "message",
                       Msg("Fetching transcript and creating embeddings..."))
                /\ GoTo(j, "await_transcribe")
    /\ CountTerminal(j)
    /\ UNCHANGED <<worker_in, worker_chunks, sources, embeddings, notJobs>>

\* lines 67-82: the transcript's chunks are there; up to the await of the
\* insert of the source record
YtTranscribed(j) ==
    /\ IsWorker(j, "youtube", "await_transcribe")
    /\ upload_jobs' = SetField(SetField(upload_jobs, j, "message", Msg("Saving to Supabase...")),
                               j, "chunk_count", worker_in[j].total)
    /\ GoTo(j, "await_insert_source")
    /\ CountTerminal(j)
    /\ UNCHANGED <<worker_in, worker_chunks, sources, embeddings, notJobs>>

\* The completed write of youtube.py 100-106
YtCompleted(j) ==
    DictSet(upload_jobs, j,
            [status |-> "completed",
             message |-> MsgOf("Successfully processed {} chunks", <<worker_in[j].total>>),
             source_id |-> ExtractVideoId(worker_in[j].source),
             chunk_count |-> worker_in[j].total])

\* lines 82-98: the source record is inserted; up to the await of the first
\* embedding's insert, or, with no chunk, the completed write
YtSourceInserted(j) ==
    /\ IsWorker(j, "youtube", "await_insert_source")
    /\ sources' = DictSet(sources, j, [source_type |-> "youtube",
                                       source_id |-> ExtractVideoId(worker_in[j].source),
                                       chunk_count |-> worker_in[j].total])
    /\ worker_chunks' = [worker_chunks EXCEPT ![j] = 0]
    /\ IF worker_in[j].total = 0
       THEN upload_jobs' = YtCompleted(j) /\ GoTo(j, "done")
       ELSE upload_jobs' = upload_jobs /\ GoTo(j, "await_insert_embedding")
    /\ CountTerminal(j)
    /\ UNCHANGED <<worker_in, embeddings, notJobs>>

\* lines 90-106: an embedding is inserted; after the last, the completed write
YtEmbeddingInserted(j) ==
    /\ IsWorker(j, "youtube", "await_insert_embedding")
    /\ embeddings' = DictSet(embeddings, j,
                             IF j \in DOMAIN embeddings THEN embeddings[j] + 1 ELSE 1)
    /\ worker_chunks' = [worker_chunks EXCEPT ![j] = @ + 1]
    /\ IF worker_chunks[j] + 1 = worker_in[j].total
       THEN upload_jobs' = YtCompleted(j) /\ GoTo(j, "done")
       ELSE upload_jobs' = upload_jobs /\ GoTo(j, "await_insert_embedding")
    /\ CountTerminal(j)
    /\ UNCHANGED <<worker_in, sources, notJobs>>

\* The call a worker awaits raises an Exception: the handler of the enclosing
\* try writes the failed record and the task ends.
WorkerRaises(j, e) ==
    /\ worker_pc[j] \in Awaits
    /\ upload_jobs' = OnException(upload_jobs, j, e)
    /\ GoTo(j, "done")
    /\ CountTerminal(j)
    /\ UNCHANGED <<worker_in, worker_chunks, sources, embeddings, notJobs>>

\* One step of the background task of a job, from one await to the next.
WorkerStep(j) ==
    \/ PdfRun(j)
    \/ PdfConnected(j)
    \/ PdfSelected(j)
    \/ PdfSourceInserted(j)
    \/ PdfChunk(j)
    \/ PdfEmbeddingInserted(j)
    \/ PdfExhausted(j)
    \/ PdfSourceUpdated(j)
    \/ YtRun(j)
    \/ YtConnected(j)
    \/ YtSelected(j)
    \/ YtTranscribed(j)
    \/ YtSourceInserted(j)
    \/ YtEmbeddingInserted(j)
    \/ \E e \in Errors : WorkerRaises(j, e)

JobsNext ==
    \/ \E j \in JobIds, f \in PdfFiles, pages \in Pdfs : UploadPdf(j, f, pages)
    \/ \E j \in JobIds, u \in Urls, n \in 0..MaxChunks : UploadYoutube(j, u, n)
    \/ \E j \in JobIds : WorkerStep(j)

SpecJobs == Init /\ [][JobsNext]_vars

\* The event loop runs every task that is ready: a worker that can take a step
\* eventually takes one.
FairSpecJobs == SpecJobs /\ \A j \in JobIds : WF_vars(WorkerStep(j))

\* The job identities clients look up: those uuid4 may give and one that is
\* never given to a job.
LookupIds == JobIds \cup {"job0"}

\* job.get(field, default)
Get(job, field, default) == IF field \in DOMAIN job THEN job[field] ELSE default

\* sources.py line 31: job_id in upload_jobs
Found(jobs, job_id) == job_id \in DOMAIN jobs

\* JobStatusResponse(job_id=..., status=..., message=..., video_id=...,
\* chunk_count=..., error=...) of sources.py 38-45.  The model class
\* (models/schemas.py 37-43) has a field source_id and none called video_id, so
\* the keyword video_id is dropped and source_id keeps its default, None.
JobStatusResponse(job_id, job) ==
    [code        |-> 200,
     job_id      |-> job_id,
     status      |-> Get(job, "status", "unknown"),
     message     |-> Get(job, "message", Msg("")),
     source_id   |-> None,
     chunk_count |-> Get(job, "chunk_count", NoneCount),
     error       |-> Get(job, "error", Msg(None))]

\* GET /api/upload/status/{job_id} (sources.py 15-45)
GetJobStatus(job_id) ==
    /\ poll' = IF Found(upload_jobs, job_id)
               THEN JobStatusResponse(job_id, upload_jobs[job_id])
               ELSE [code |-> 404, job_id |-> job_id]
    /\ UNCHANGED <<jobVars, deleting, rlVars, voiceVars, chatVars, retired, handlerVars>>

\* Uploads, their workers and clients polling the job status.
PollsNext ==
    \/ JobsNext
    \/ \E id \in LookupIds : GetJobStatus(id)

SpecPolls == Init /\ [][PollsNext]_vars

\* DELETE /api/upload/sources/{source_id}, lines 94-100: the embeddings of the
\* source row are deleted; up to the await of the delete of the row
DeleteEmbeddings(id) ==
    /\ deleting = None
    /\ embeddings' = DictDel(embeddings, id)
    /\ deleting' = id
    /\ UNCHANGED <<upload_jobs, worker_pc, worker_in, worker_chunks, sources,
                   terminal_writes, poll, rlVars, voiceVars, chatVars, retired, handlerVars>>

\* lines 104-119: the row is deleted (with no such row the request ends 404)
DeleteSourceRow ==
    /\ deleting # None
    /\ sources' = DictDel(sources, deleting)
    /\ deleting' = None
    /\ UNCHANGED <<upload_jobs, worker_pc, worker_in, worker_chunks, embeddings,
                   terminal_writes, poll, rlVars, voiceVars, chatVars, retired, handlerVars>>

\* lines 122-124: the delete of the row raises and the request ends 500
DeleteRaises ==
    /\ deleting # None
    /\ deleting' = None
    /\ UNCHANGED <<jobVars, poll, rlVars, voiceVars, chatVars, retired, handlerVars>>

\* Uploads, their workers and clients deleting source records.
StoreNext ==
    \/ JobsNext
    \/ \E id \in JobIds : DeleteEmbeddings(id)
    \/ DeleteSourceRow
    \/ DeleteRaises

SpecStore == Init /\ [][StoreNext]_vars

(***************************************************************************)
(*   RATE-LIMITED HANDLERS (routes/ask.py, routes/realtime.py) AND THE     *)
(*   CLIENT IDENTITY (middleware/rate_limiter.py, utils)                   *)
(***************************************************************************)

\* Addresses and headers are sequences of characters.
Unknown == <<"u", "n", "k", "n", "o", "w", "n">>

\* The characters str.strip() removes, among those of the headers below.
Whitespace == {" ", "\t"}

\* forwarded.split(",")[0]
FirstEntry(forwarded) ==
    LET commas == {i \in 1..Len(forwarded) : forwarded[i] = ","}
    IN  IF commas = {} THEN forwarded ELSE SubSeq(forwarded, 1, Least(commas) - 1)

RECURSIVE LStrip(_)
LStrip(text) ==
    IF text # <<>> /\ Head(text) \in Whitespace THEN LStrip(Tail(text)) ELSE text

RECURSIVE RStrip(_)
RStrip(text) ==
    IF text # <<>> /\ text[Len(text)] \in Whitespace
    THEN RStrip(SubSeq(text, 1, Len(text) - 1))
    ELSE text

\* str.strip()
Strip(text) == RStrip(LStrip(text))

\* request.client.host if request.client else "unknown"
PeerOf(request) == IF request.client # NoneText THEN request.client ELSE Unknown

\* `if forwarded:` of a header value that may be absent
HeaderGiven(request) == request.forwarded # NoneText /\ request.forwarded # <<>>

\* utils/request.py get_client_ip, which no module imports: the header is
\* used whenever it is there.
RequestGetClientIp(request) ==
    IF HeaderGiven(request) THEN Strip(FirstEntry(request.forwarded)) ELSE PeerOf(request)

GetClientIpMutantTrustsHeader(trust, request) == RequestGetClientIp(request)

\* middleware/rate_limiter.py get_client_ip, the identity check_rate_limit uses
GetClientIp(trust, request) ==
    IF trust /\ HeaderGiven(request)
    THEN Strip(FirstEntry(request.forwarded))
    ELSE PeerOf(request)

\* utils/__init__.py get_client_ip, the identity /v1/chat gives the agent
UtilsGetClientIp(trust, request) ==
    IF trust /\ HeaderGiven(request)
    THEN Strip(FirstEntry(request.forwarded))
    ELSE PeerOf(request)

\* The handlers that call rate_limiter.check_rate_limit.
RateLimited == {"chat", "search", "sessions", "events", "realtime"}

StepsMutantConfigFirst(kind) ==
    CASE kind = "chat"     -> <<"check_rate_limit", "get_client_ip",
                                "StreamingMeetingNotesAgent", "StreamingResponse">>
      [] kind = "search"   -> <<"check_rate_limit", "search_meeting_notes">>
      [] kind = "sessions" -> <<"check_rate_limit", "list_sessions">>
      [] kind = "events"   -> <<"eventbrite_configured", "check_rate_limit",
                                "EventbriteService">>
      [] kind = "realtime" -> <<"OPENAI_API_KEY", "check_rate_limit", "load_voice_prompt",
                                "realtime_sessions">>

\* The steps of each handler in the order of its statements: ask_question
\* (ask.py 34-71), search_notes (91-95), list_sessions (113-117), get_events
\* (135-152) and create_realtime_session (realtime.py 43-146).
Steps(kind) ==
    CASE kind = "chat"     -> <<"check_rate_limit", "get_client_ip",
                                "StreamingMeetingNotesAgent", "StreamingResponse">>
      [] kind = "search"   -> <<"check_rate_limit", "search_meeting_notes">>
      [] kind = "sessions" -> <<"check_rate_limit", "list_sessions">>
      [] kind = "events"   -> <<"check_rate_limit", "eventbrite_configured",
                                "EventbriteService">>
      [] kind = "realtime" -> <<"check_rate_limit", "OPENAI_API_KEY", "load_voice_prompt",
                                "realtime_sessions">>

\* What a step does: it returns, it reaches an await and the handler is
\* suspended there, or it raises an exception; an HTTPException has a status.
Ok == [exc |-> "none", status |-> 0]

Suspends == [exc |-> "await", status |-> 0]

Raises(exc) == [exc |-> exc, status |-> 0]

Http(status) == [exc |-> "HTTPException", status |-> status]

\* The statuses other than 200 the realtime API answers the POST with.
UpstreamStatuses == {201, 401, 429, 503}

\* The steps that await: rag_service.search_meeting_notes (ask.py 94),
\* rag_service.list_sessions (116), get_event_details or get_upcoming_events
\* (146, 151) and client.post (realtime.py 55).
Awaited == {"search_meeting_notes", "list_sessions", "EventbriteService",
            "realtime_sessions"}

\* What a step does from its start to its first await, or to its end when it
\* has none.  eventbrite_configured is lines 137-138 and OPENAI_API_KEY lines
\* 45-46 with their raise; EventbriteService raises 400 for action=details
\* without event_id (ask.py 144-145) before it awaits.
RunOutcomes(step) ==
    CASE step = "get_client_ip"              -> {Ok}
      [] step = "StreamingMeetingNotesAgent" -> {Ok, Raises("FileNotFoundError"),
                                                 Raises("Exception")}
      [] step = "StreamingResponse"          -> {Ok, Raises("Exception")}
      [] step = "eventbrite_configured"      -> {Ok, Http(503)}
      [] step = "OPENAI_API_KEY"             -> {Ok, Http(500)}
      [] step = "load_voice_prompt"          -> {Ok, Raises("FileNotFoundError")}
      [] step = "EventbriteService"          -> {Suspends, Http(400), Raises("Exception")}
      [] step \in Awaited \ {"EventbriteService"} -> {Suspends}

\* What an awaited step does when the handler is resumed: the call returns or
\* raises; get_event_details returns no event (ask.py 147-148); the realtime
\* API answers with a status other than 200 (realtime.py 139-144).
ResumeOutcomes(step) ==
    CASE step = "search_meeting_notes" -> {Ok, Raises("FileNotFoundError"), Raises("Exception")}
      [] step = "list_sessions"        -> {Ok, Raises("FileNotFoundError"), Raises("Exception")}
      [] step = "EventbriteService"    -> {Ok, Http(404), Raises("Exception")}
      [] step = "realtime_sessions"    -> {Ok, Raises("Exception")}
                                              \cup {Http(n) : n \in UpstreamStatuses}

\* The status of a request whose step raises.  ask_question and search_notes
\* turn FileNotFoundError into 404 and any other exception into 500 (ask.py
\* 72-75, 96-99), list_sessions every exception into 500 (118-119); get_events
\* re-raises an HTTPException and turns any other exception into 500
\* (153-156), its configuration check being outside the try;
\* create_realtime_session catches nothing: an HTTPException keeps its status
\* and any other exception is the framework's 500.
FailStatus(kind, outcome) ==
    IF outcome.exc = "HTTPException"
    THEN IF kind \in {"chat", "search", "sessions"} THEN 500 ELSE outcome.status
    ELSE IF outcome.exc = "FileNotFoundError" /\ kind \in {"chat", "search"}
         THEN 404
         ELSE 500

\* Requests suspended at once.
MaxSuspended == 2

\* A request is in hand: its handler is running, not suspended at an await.
Busy == h_next > 0

NextStep == Steps(h_kind)[h_next]

\* The request ends with a status.
End(status) == h_next' = 0 /\ h_status' = status

Advance == h_next' = h_next + 1 /\ h_status' = 0

\* The deployment sets TRUST_PROXY=true (read once, when the modules load).
SetTrustProxy ==
    /\ ~trust_proxy
    /\ ~Busy
    /\ requests = EmptyDict
    /\ trust_proxy' = TRUE
    /\ h_suspended = <<>>
    /\ UNCHANGED <<h_kind, h_request, h_next, h_work, h_user_id, h_status, h_suspended,
                   requests, last_cleanup, response, notHandler>>

\* A request reaches a handler, which runs when no other handler is running.
HandlerArrive(kind, request) ==
    /\ ~Busy
    /\ Len(h_suspended) < MaxSuspended
    /\ h_kind' = kind
    /\ h_request' = request
    /\ h_next' = 1
    /\ h_work' = {}
    /\ h_user_id' = NoneText
    /\ h_status' = 0
    /\ UNCHANGED <<trust_proxy, h_suspended, requests, last_cleanup, response, notHandler>>

\* rate_limiter.check_rate_limit(request): a rejection raises
\* HTTPException(429) out of the handler.
HandlerAdmit ==
    /\ Busy
    /\ NextStep = "check_rate_limit"
    /\ LET client_ip == GetClientIp(trust_proxy, h_request)
           res == CheckRateLimit(requests, last_cleanup, client_ip, now)
       IN  /\ requests' = res.requests
           /\ last_cleanup' = res.last_cleanup
           /\ response' = [client_ip |-> client_ip, status |-> res.status,
                           headers |-> res.headers, time |-> now]
           /\ IF res.status = 429 THEN End(429) ELSE Advance
    /\ UNCHANGED <<trust_proxy, h_kind, h_request, h_work, h_user_id, h_suspended,
                   notHandler>>

\* Any other step of the handler: it is started, and returns, raises or
\* reaches its await, where the handler is suspended and gives way to the
\* handlers of other requests.
HandlerRun(outcome) ==
    /\ Busy
    /\ NextStep # "check_rate_limit"
    /\ outcome \in RunOutcomes(NextStep)
    /\ h_work' = h_work \cup {NextStep}
    /\ h_user_id' = IF NextStep = "get_client_ip"
                    THEN UtilsGetClientIp(trust_proxy, h_request)
                    ELSE h_user_id
    /\ IF outcome = Suspends
       THEN /\ h_suspended' = Append(h_suspended,
                                     [kind |-> h_kind, request |-> h_request,
                                      next |-> h_next, work |-> h_work',
                                      user_id |-> h_user_id'])
            /\ h_next' = 0
            /\ h_status' = 0
       ELSE /\ h_suspended' = h_suspended
            /\ IF outcome # Ok THEN End(FailStatus(h_kind, outcome))
               ELSE IF h_next = Len(Steps(h_kind)) THEN End(200)
               ELSE Advance
    /\ UNCHANGED <<trust_proxy, h_kind, h_request, requests, last_cleanup, response,
                   notHandler>>

\* The awaited call of the i-th suspended request returns or raises, and its
\* handler runs on.
HandlerResume(i, outcome) ==
    /\ ~Busy
    /\ i \in 1..Len(h_suspended)
    /\ LET r == h_suspended[i]
       IN  /\ outcome \in ResumeOutcomes(Steps(r.kind)[r.next])
           /\ h_kind' = r.kind
           /\ h_request' = r.request
           /\ h_work' = r.work
           /\ h_user_id' = r.user_id
           /\ IF outcome # Ok THEN End(FailStatus(r.kind, outcome))
              ELSE IF r.next = Len(Steps(r.kind)) THEN End(200)
              ELSE h_next' = r.next + 1 /\ h_status' = 0
    /\ h_suspended' = [k \in 1..(Len(h_suspended) - 1) |->
                          IF k < i THEN h_suspended[k] ELSE h_suspended[k + 1]]
    /\ UNCHANGED <<trust_proxy, requests, last_cleanup, response, notHandler>>

\* The steps of the handlers after the admission check, and their outcomes.
HandlerSteps ==
    UNION {{Steps(kind)[k] : k \in 1..Len(Steps(kind))} : kind \in RateLimited}
        \ {"check_rate_limit"}

Outcomes == UNION {RunOutcomes(step) : step \in HandlerSteps}
                \cup UNION {ResumeOutcomes(step) : step \in Awaited}

\* The request of a client connected directly, with no forwarding header.
PlainRequest == [client |-> <<":", ":", "1">>, forwarded |-> NoneText]

\* Requests of one client to every rate-limited handler.
HandlersNext ==
    \/ \E kind \in RateLimited : HandlerArrive(kind, PlainRequest)
    \/ HandlerAdmit
    \/ \E outcome \in Outcomes : HandlerRun(outcome)
    \/ \E i \in 1..MaxSuspended, outcome \in Outcomes : HandlerResume(i, outcome)

SpecHandlers == Init /\ [][HandlersNext]_vars

\* Peers and x-forwarded-for headers of the requests.
Peers == {<<":", ":", "1">>, NoneText}

Forwardeds == {NoneText,
               <<>>,
               <<" ", ":", ":", "2", " ", ",", " ", ":", ":", "9">>,
               <<":", ":", "3">>}

Requests == {[client |-> c, forwarded |-> f] : c \in Peers, f \in Forwardeds}

\* Requests admitted in all.
MaxRequests == 3

RECURSIVE Stored(_)
\* The number of timestamps stored for the identities of a set.
Stored(S) ==
    IF S = {} THEN 0
    ELSE LET c == CHOOSE x \in S : TRUE
         IN  Len(requests[c]) + Stored(S \ {c})

\* Requests with any peer and header, under either setting of TRUST_PROXY.
IdentNext ==
    \/ SetTrustProxy
    \/ \E kind \in {"chat", "search"}, request \in Requests :
          /\ Stored(DOMAIN requests) < MaxRequests
          /\ HandlerArrive(kind, request)
    \/ HandlerAdmit
    \/ \E outcome \in Outcomes : HandlerRun(outcome)
    \/ \E i \in 1..MaxSuspended, outcome \in Outcomes : HandlerResume(i, outcome)

SpecIdent == Init /\ [][IdentNext]_vars

(***************************************************************************)
(*                         CLAIMS: rate limiter                            *)
(***************************************************************************)

\* Number of timestamps of a sequence that fall in the half-open [lo, hi).
CountIn(timestamps, lo, hi) ==
    Cardinality({i \in 1..Len(timestamps) : timestamps[i] >= lo /\ timestamps[i] < hi})

\* An interval that holds given timestamps still holds them when its start is
\* moved up to the earliest of them: the intervals to look at start at one.
IntervalStarts(timestamps) == {timestamps[i] : i \in 1..Len(timestamps)}

\* C1: with a non-decreasing clock, the admitted requests of one identity whose
\* timestamps fall in any half-open interval of width window_seconds number at
\* most requests_per_minute, and a request of that identity made while such an
\* interval already holds requests_per_minute admissions is rejected.
C1_SlidingWindowBound ==
    /\ [](\A c \in Clients : \A lo \in IntervalStarts(admitted[c]) :
            CountIn(admitted[c], lo, lo + window_seconds) <= requests_per_minute)
    /\ [][\A c \in Clients :
            (Check(c) /\ Len(admitted[c]) >= requests_per_minute)
                => (response'.status = 429 /\ admitted' = admitted)]_vars

\* the window of an identity is full and its next request has been rejected
C1_Witness ==
    /\ response.status = 429
    /\ response.time = now
    /\ Len(admitted[response.client_ip]) = requests_per_minute
    /\ admitted[response.client_ip][1] < now

\* C6: a call that finds requests_per_minute or more surviving timestamps for
\* its identity answers 429 with Retry-After 60 and leaves the identity's
\* sequence equal to its pruned sequence: the attempt is not recorded.
C6_RejectionLeavesNoRecord ==
    [][\A c \in Clients :
        (/\ Check(c)
         /\ c \in DOMAIN requests
         /\ Len(InWindow(requests[c], now)) >= requests_per_minute)
        => (/\ response'.status = 429
            /\ response'.headers = {<<"Retry-After", window_seconds>>}
            /\ requests'[c] = InWindow(requests[c], now))]_vars

\* a request was rejected at a time when some of the stored timestamps had
\* expired and others had not
C6_Witness ==
    /\ response.status = 429
    /\ response.time = now
    /\ now >= window_seconds
    /\ Len(requests[response.client_ip]) = requests_per_minute

\* C9: whatever the interleaving of concurrently handled requests, a request
\* is admitted only if, at the moment it is admitted, fewer than
\* requests_per_minute admissions of its identity lie in the window: no
\* admission rests on a count that another request has made stale.
C9_AtomicCheckAndAppend ==
    [][\A t \in Tasks :
        (task_pc[t] = "check" /\ task_pc'[t] = "body")
        => (/\ Len(admitted[task_ip[t]]) < requests_per_minute
            /\ admitted'[task_ip[t]] = Append(admitted[task_ip[t]], now))]_vars

\* two requests of one identity are being handled at once, the second of them
\* admitted as the last one the window allows
C9_Witness ==
    /\ \E t1, t2 \in Tasks :
          /\ t1 # t2
          /\ task_pc[t1] = "body" /\ task_pc[t2] = "body"
          /\ task_ip[t1] = task_ip[t2]
          /\ Len(admitted[task_ip[t1]]) = requests_per_minute

\* The unexpired timestamps stored for an identity at a time.
StoredFresh(reqs, c, current_time) ==
    IF c \in DOMAIN reqs THEN FreshOf(reqs[c], current_time - window_seconds) ELSE <<>>

\* C16: a check_rate_limit call for identity a leaves the unexpired timestamps
\* stored for any other identity b as they were (what it removes of b's is at
\* or before the cutoff), and so leaves the outcome of a request of b the same.
C16_IdentityIsolation ==
    [][\A a \in Clients : \A b \in Clients \ {a} :
        Check(a)
        => /\ StoredFresh(requests', b, now) = StoredFresh(requests, b, now)
           /\ b \in DOMAIN requests'
                 => (b \in DOMAIN requests
                     /\ requests'[b] \in {requests[b], StoredFresh(requests, b, now)})
           /\ CheckRateLimit(requests', last_cleanup', b, now).status
                 = CheckRateLimit(requests, last_cleanup, b, now).status]_vars

\* a request of one identity has just run the sweep of all identities while
\* another identity, which made no request at this time, has a full window
C16_Witness ==
    /\ response.client_ip = "10.0.0.1"
    /\ response.time = now
    /\ last_cleanup = now
    /\ now >= window_seconds
    /\ "10.0.0.1" \in DOMAIN requests /\ requests["10.0.0.1"] = <<now>>
    /\ "10.0.0.2" \in DOMAIN requests
    /\ Len(requests["10.0.0.2"]) = requests_per_minute
    /\ requests["10.0.0.2"][requests_per_minute] < now

\* The last time the clock reaches.
Horizon == MaxTicks * ClockStep

\* C15: an identity that sends no further requests has its entry removed from
\* the registry eventually, given that time advances and requests of other
\* identities keep arriving for two windows after its last request (one for its
\* timestamps to expire, one for the next sweep to fall due).
C15_EventualPurge ==
    \A c \in Clients :
        (/\ c \in retired
         /\ c \in DOMAIN requests
         /\ requests[c] # <<>>
         /\ requests[c][Len(requests[c])] + 2 * window_seconds <= Horizon)
        ~> (c \notin DOMAIN requests)

\* the entry of an identity that had stopped sending has just been removed by
\* the sweep that a request of another identity ran
C15_Witness ==
    \E c \in retired :
        /\ c \notin DOMAIN requests
        /\ response.client_ip # c
        /\ response.time = now
        /\ last_cleanup = now
        /\ now >= window_seconds

\* The text of a header before its first comma.
EntryBeforeComma(forwarded) ==
    CHOOSE p \in {SubSeq(forwarded, 1, n) : n \in 0..Len(forwarded)} :
        /\ \A i \in 1..Len(p) : p[i] # ","
        /\ Len(p) = Len(forwarded) \/ forwarded[Len(p) + 1] = ","

\* id is text with the whitespace at both of its ends taken away.
IsTrimmed(id, text) ==
    \E i \in 0..Len(text) : \E j \in i..Len(text) :
        /\ id = SubSeq(text, i + 1, j)
        /\ \A k \in (1..i) \cup ((j + 1)..Len(text)) : text[k] \in Whitespace
        /\ id # <<>> => (id[1] \notin Whitespace /\ id[Len(id)] \notin Whitespace)

\* The peer address of a request, or "unknown".
PeerOrUnknown(request) == IF request.client = NoneText THEN Unknown ELSE request.client

\* C17: without proxy trust the identity of a request is its peer address (or
\* "unknown" when there is no peer) whatever its x-forwarded-for header, so
\* requests that differ only in the header have one rate-limit bucket; with
\* proxy trust and a non-empty header it is the first comma-separated entry of
\* the header, trimmed, and with an absent or empty header the peer address.
\* The identity /v1/chat derives for the agent is the one of the bucket.
C17_ClientIdentity ==
    /\ [][HandlerAdmit
            => /\ response'.client_ip \in DOMAIN requests'
               /\ IF trust_proxy /\ h_request.forwarded \notin {NoneText, <<>>}
                  THEN IsTrimmed(response'.client_ip,
                                 EntryBeforeComma(h_request.forwarded))
                  ELSE response'.client_ip = PeerOrUnknown(h_request)]_vars
    /\ [](~trust_proxy
            => \A r1, r2 \in Requests :
                  r1.client = r2.client
                  => GetClientIp(trust_proxy, r1) = GetClientIp(trust_proxy, r2))
    /\ [](h_user_id # NoneText => h_user_id = response.client_ip)

\* without proxy trust, two requests of one peer have been admitted to one
\* bucket, the second of them carrying a header that names another address
C17_Witness ==
    /\ ~trust_proxy
    /\ h_request = [client |-> <<":", ":", "1">>,
                    forwarded |-> <<" ", ":", ":", "2", " ", ",", " ", ":", ":", "9">>]
    /\ response.status = 200
    /\ response.client_ip = <<":", ":", "1">>
    /\ DOMAIN requests = {<<":", ":", "1">>}
    /\ Len(requests[<<":", ":", "1">>]) = 2

\* C18: in every rate-limited handler the admission check is the first step:
\* nothing has been run for a request when check_rate_limit is called, and
\* when it rejects, the request ends with 429 and no agent, search, events-API,
\* configuration check or other step has been started for it.
C18_AdmissionFirst ==
    /\ [](\A kind \in RateLimited : Steps(kind)[1] = "check_rate_limit")
    /\ [][HandlerAdmit => h_work = {}]_vars
    /\ [][(HandlerAdmit /\ response'.status = 429)
            => (h_next' = 0 /\ h_status' = 429 /\ h_work' = {})]_vars

\* a request to /v1/events has been rejected, the window of its client full
C18_Witness ==
    /\ h_kind = "events"
    /\ ~Busy
    /\ h_status = 429
    /\ h_work = {}
    /\ response.status = 429
    /\ Len(requests[response.client_ip]) = requests_per_minute

\* C19: the admission controller gates every handler: a step of a handler
\* that changes the session registry or the job ledger belongs to a request
\* that check_rate_limit has admitted, which leaves its timestamp in the rate
\* limiter's registry.
C19_EveryHandlerGated ==
    [][(voice_sessions' # voice_sessions \/ upload_jobs' # upload_jobs)
        => \E c \in DOMAIN requests : requests[c] # <<>>]_vars

\* Every identity of the registry has a timestamp, and every timestamp is later
\* than the cutoff of a sweep at current_time.
Swept(reqs, current_time) ==
    \A c \in DOMAIN reqs :
        /\ reqs[c] # <<>>
        /\ \A k \in 1..Len(reqs[c]) : reqs[c][k] > current_time - window_seconds

\* C26: two consecutive sweeps of _cleanup_stale_entries are at least
\* window_seconds apart, the first no earlier than window_seconds after
\* construction, and right after a sweep (and still at the end of the
\* check_rate_limit call that made it) the registry holds no timestamp at or
\* before the cutoff and no identity with an empty sequence.
C26_SweepInterval ==
    /\ [][last_cleanup' # last_cleanup
            => (/\ last_cleanup' = now
                /\ last_cleanup' - last_cleanup >= window_seconds
                /\ Swept(requests', now))]_vars
    /\ [](LET swept == CleanupStaleEntries(requests, last_cleanup, now)
          IN  swept.last_cleanup # last_cleanup
                 => (/\ now - last_cleanup >= window_seconds
                     /\ Swept(swept.requests, now)))

\* the second sweep, one window after the first, kept a fresh timestamp of an
\* identity and dropped its stale one
C26_Witness ==
    /\ now = 2 * window_seconds
    /\ last_cleanup = 2 * window_seconds
    /\ "10.0.0.2" \in DOMAIN requests
    /\ requests["10.0.0.2"] = <<now - ClockStep>>
    /\ response.client_ip = "10.0.0.1"
    /\ response.time = now

(***************************************************************************)
(*                        CLAIMS: turn aggregator                          *)
(***************************************************************************)

\* The session is in the registry and the tracing client is set.
Active(sid) == langfuse_client /\ sid \in DOMAIN voice_sessions

Pending(sid) == voice_sessions[sid].current_turn

\* A PendingTurn with nothing recorded.
EmptyPending == [user_input |-> None, assistant_output |-> None, function_calls |-> <<>>]

\* The last call emitted exactly one Turn, of session sid, with these values.
EmittedOne(sid, input, output, calls) ==
    /\ Len(emitted') = 1
    /\ emitted'[1].session_id = sid
    /\ emitted'[1].input = input
    /\ emitted'[1].output = output
    /\ emitted'[1].function_calls = calls

\* C2: after user_transcript(A) on an empty PendingTurn, a second
\* user_transcript(C) with no assistant_response in between emits a Turn with
\* input A and the placeholder output, and leaves C as the pending user input.
C2_ConsecutiveTranscriptsKept ==
    [][\A sid \in Sessions : \A a \in UserTexts \ {""}, c \in UserTexts \ {""} :
        (/\ Active(sid)
         /\ Pending(sid) = [EmptyPending EXCEPT !.user_input = a]
         /\ LogVoiceEvent(sid, "user_transcript", c, EmptyDict, SinkOk))
        => (/\ EmittedOne(sid, a, "No output", <<>>)
            /\ voice_sessions'[sid].current_turn.user_input = c)]_vars

\* C4: user_transcript(x) on a PendingTurn that holds both a user input and an
\* assistant output emits one Turn with those two values, increments the turn
\* counter by one and leaves a PendingTurn with user input x, no assistant
\* output and no function calls.
C4_FlushThenRecord ==
    [][\A sid \in Sessions : \A x \in UserTexts \ {""} :
        (/\ Active(sid)
         /\ Truthy(Pending(sid).user_input)
         /\ Truthy(Pending(sid).assistant_output)
         /\ LogVoiceEvent(sid, "user_transcript", x, EmptyDict, SinkOk))
        => (/\ EmittedOne(sid, Pending(sid).user_input, Pending(sid).assistant_output,
                          ToolSpans(Pending(sid).function_calls, SinkOk.tools))
            /\ voice_sessions'[sid].turn_count = voice_sessions[sid].turn_count + 1
            /\ voice_sessions'[sid].current_turn = [EmptyPending EXCEPT !.user_input = x])]_vars

\* C5: no voice-trace handler call ends with an exception of the tracing sink:
\* the event and end handlers answer 200 whatever the sink does.
C5_SinkFailureNotRaised == voice_outcome.status # 500

\* The step is a call of the handler op for session sid.
Handled(op, sid) ==
    /\ langfuse_client' = langfuse_client
    /\ voice_outcome'.op = op
    /\ voice_outcome'.session_id = sid

\* The sink outcomes of a flush of session sid's PendingTurn: every Langfuse
\* call returning, or any one of them raising.
AnySink(sid) == IF Active(sid) THEN SinkFaults(Pending(sid).function_calls) ELSE {SinkOk}

\* user_transcript(a) on an empty PendingTurn emits nothing, and
\* assistant_response(b) then emits one Turn with input a, output b and no
\* function calls and leaves an empty PendingTurn, whatever the sink does.
NormalTurnClosing(UserIn, AssistantOut) ==
    \A sid \in Sessions : \A a \in UserIn, b \in AssistantOut :
        /\ (/\ Active(sid)
            /\ Pending(sid) = EmptyPending
            /\ LogVoiceEvent(sid, "user_transcript", a, EmptyDict, SinkOk))
           => (/\ emitted' = <<>>
               /\ voice_sessions'[sid].current_turn = [EmptyPending EXCEPT !.user_input = a])
        /\ \A sink \in AnySink(sid) :
            (/\ Active(sid)
             /\ Pending(sid) = [EmptyPending EXCEPT !.user_input = a]
             /\ LogVoiceEvent(sid, "assistant_response", b, EmptyDict, sink))
            => (/\ EmittedOne(sid, a, b, <<>>)
                /\ voice_sessions'[sid].current_turn = EmptyPending)

\* C10, for the non-empty texts A and B: user_transcript(A) on an empty
\* PendingTurn emits nothing, and assistant_response(B) then emits exactly one
\* Turn with input A, output B and an empty function-call list and leaves an
\* empty PendingTurn.
C10_NormalTurnClosing ==
    [][NormalTurnClosing(UserTexts \ {""}, AssistantTexts \ {""})]_vars

\* The function_call events a session has taken in since its last Turn.
EventsOf(sid) == IF sid \in DOMAIN fn_events THEN fn_events[sid] ELSE <<>>

\* The call text an entry of a Turn's function-call list stands for, in the
\* format "function_name({args})" of the events; an entry named tool_call has
\* the whole text as its input.
CallTextOf(entry) ==
    IF entry.name = <<"t", "o", "o", "l", "_", "c", "a", "l", "l">>
    THEN entry.input
    ELSE entry.name \o <<"(">> \o entry.input \o <<")">>

\* The result an entry carries, an entry without output carrying the empty one.
ResultCarried(entry) == IF entry.output = NoneText THEN <<>> ELSE entry.output

\* The entry is the function_call event ev: its call text and its result.
IsEvent(entry, ev) ==
    /\ CallTextOf(entry) = ev.content
    /\ ResultCarried(entry) = ResultOf(ev.metadata)

\* A function_call event emits nothing, and a Turn emitted by a call for a
\* session lists the events the session has taken in since its last Turn, one
\* entry each, in arrival order.
CallsEmitted ==
    /\ \A sid \in Sessions : \A c \in FnCalls, md \in Metadatas :
          LogVoiceEvent(sid, "function_call", c, md, SinkOk) => emitted' = <<>>
    /\ \A sid \in Sessions :
          (/\ langfuse_client
           /\ emitted' # <<>>
           /\ voice_outcome'.session_id = sid)
          => /\ Len(emitted'[1].function_calls) = Len(EventsOf(sid))
             /\ \A k \in 1..Len(EventsOf(sid)) :
                   IsEvent(emitted'[1].function_calls[k], EventsOf(sid)[k])

\* C11: a function_call event never emits a Turn by itself, and every emitted
\* Turn's function-call list equals exactly the function_call events (call
\* text and result) its session received since its previous flush, in arrival
\* order.
C11_CallsListed == [][CallsEmitted]_vars

\* end_voice_trace on an active session removes it, emitting one final Turn
\* (a side that is not there replaced by its placeholder) when the PendingTurn
\* has a user input or an assistant output, and no Turn when it has neither,
\* whatever the sink does.
EndOutcome ==
    \A sid \in Sessions :
        (Active(sid) /\ Handled("end", sid))
        => /\ sid \notin DOMAIN voice_sessions'
           /\ IF Truthy(Pending(sid).user_input) \/ Truthy(Pending(sid).assistant_output)
              THEN /\ Len(emitted') = 1
                   /\ emitted'[1].session_id = sid
                   /\ emitted'[1].input = OrElse(Pending(sid).user_input, "No input")
                   /\ emitted'[1].output = OrElse(Pending(sid).assistant_output, "No output")
              ELSE emitted' = <<>>

\* C12, a PendingTurn having a text when a non-empty one was recorded: ending
\* an active session whose PendingTurn has a user input or an assistant output
\* emits exactly one final Turn, the missing side replaced by "No input" or
\* "No output", and removes the session; ending one that has neither emits no
\* Turn and removes the session.
C12_SessionEnd == [][EndOutcome]_vars

\* The number of the last Turn handed to the sink for a session identity.
LastNumber(sid) == IF sid \in DOMAIN last_turn_number THEN last_turn_number[sid] ELSE 0

\* C13: over any sequence of start, event and end operations a session's turn
\* counter never decreases, the Turns emitted for one session identity are
\* numbered 1, 2, 3, ... in emission order without gap or repeat, and the
\* counter equals the number of Turns emitted for the session.
C13_TurnNumbering ==
    /\ [][\A sid \in Sessions :
            (sid \in DOMAIN voice_sessions /\ sid \in DOMAIN voice_sessions')
            => voice_sessions'[sid].turn_count >= voice_sessions[sid].turn_count]_vars
    /\ [][\A sid \in Sessions :
            (langfuse_client /\ emitted' # <<>> /\ emitted'[1].session_id = sid)
            => emitted'[1].turn_number = LastNumber(sid) + 1]_vars
    /\ [](\A sid \in DOMAIN voice_sessions :
            voice_sessions[sid].turn_count = LastNumber(sid))

\* The part of the registry that belongs to the sessions of S.
Restrict(sessions, S) == [x \in (DOMAIN sessions) \cap S |-> sessions[x]]

\* A handler call for session sid had the outcome res that the same call has
\* on a registry holding sid alone, and left every other session as it was.
Alone(sid, res) ==
    /\ emitted' = res.turns
    /\ \A k \in 1..Len(emitted') : emitted'[k].session_id = sid
    /\ Restrict(voice_sessions', {sid}) = res.sessions
    /\ \A other \in Sessions \ {sid} :
          /\ other \in DOMAIN voice_sessions' <=> other \in DOMAIN voice_sessions
          /\ other \in DOMAIN voice_sessions
                => voice_sessions'[other] = voice_sessions[other]

C21_SessionLifetime ==
    /\ [][\A sid \in Sessions :
            /\ (langfuse_client /\ Handled("start", sid))
                  => (/\ sid \in DOMAIN voice_sessions'
                      /\ voice_sessions'[sid].current_turn = EmptyPending)
            /\ (langfuse_client /\ Handled("end", sid)) => sid \notin DOMAIN voice_sessions'
            /\ (sid \in DOMAIN voice_sessions' /\ sid \notin DOMAIN voice_sessions)
                  => Handled("start", sid)
            /\ (sid \notin DOMAIN voice_sessions' /\ sid \in DOMAIN voice_sessions)
                  => Handled("end", sid)
            /\ (/\ sid \notin DOMAIN voice_sessions
                /\ Handled("event", sid) \/ Handled("end", sid))
                  => (/\ emitted' = <<>>
                      /\ voice_sessions' = voice_sessions
                      /\ fn_events' = fn_events)]_vars
    /\ [](\A sid \in DOMAIN voice_sessions :
            DOMAIN voice_sessions[sid].current_turn
                = {"user_input", "assistant_output", "function_calls"})

\* C27: at session end a PendingTurn that holds only function-call records, no
\* user input and no assistant output, counts as empty: end_voice_trace emits
\* no Turn for it and the session goes with its recorded function calls.
C27_CallsOnlyDiscarded ==
    [][\A sid \in Sessions :
        (/\ Active(sid)
         /\ Pending(sid).user_input = None
         /\ Pending(sid).assistant_output = None
         /\ Pending(sid).function_calls # <<>>
         /\ Handled("end", sid))
        => (/\ emitted' = <<>>
            /\ sid \notin DOMAIN voice_sessions'
            /\ discarded' = Len(Pending(sid).function_calls))]_vars

\* a session was ended with two function calls and no text pending: no Turn
C27_Witness ==
    /\ langfuse_client
    /\ voice_outcome.op = "end"
    /\ voice_outcome.session_id = "s1"
    /\ "s1" \notin DOMAIN voice_sessions
    /\ emitted = <<>>
    /\ discarded = 2

(***************************************************************************)
(*                        CLAIMS: streaming answer                         *)
(***************************************************************************)

\* C3: a run of the stream generator whose consumer stays connected ends with
\* the terminal marker sent exactly once, as the last frame, also when the
\* agent produced no text and when stream_answer raised part-way.
C3_TerminalMarkerOnce ==
    chat_pc \in {"finished", "raised"}
        => (/\ chat_done = 1
            /\ chat_frames # <<>>
            /\ chat_frames[Len(chat_frames)] = DoneFrame)

\* C14: when a chat run has completed normally, the frames sent are one
\* trace_id frame if and only if a tracing client was active, placed first,
\* then one text frame per fragment the agent generated, in generation order,
\* then the terminal marker.
C14_FrameSequence ==
    chat_pc = "finished"
        => chat_frames =
              (IF chat_tracing THEN <<[event |-> "trace_id", data |-> TraceId]>> ELSE <<>>)
              \o [i \in 1..Len(chat_chunks) |->
                     [event |-> "", data |-> Escape(chat_chunks[i])]]
              \o <<[event |-> "", data |-> <<"[", "D", "O", "N", "E", "]">>]>>

\* a traced run completed after MaxFragments fragments, two of them different
C14_Witness ==
    /\ chat_pc = "finished"
    /\ chat_tracing
    /\ Len(chat_chunks) = MaxFragments
    /\ chat_chunks[1] # chat_chunks[2]
    /\ Len(chat_frames) = MaxFragments + 2

\* C22: once the consumer of the /v1/chat stream has disconnected, the token
\* producer is abandoned: no further text fragment is pulled from
\* agent.stream_answer and no further frame, the terminal marker included, is
\* produced for the request.
C22_AbandonedOnDisconnect ==
    [][chat_pc = "cancelled"
        => (/\ chat_pc' = "cancelled"
            /\ chat_chunks' = chat_chunks
            /\ chat_frames' = chat_frames
            /\ chat_done' = chat_done)]_vars

\* the consumer went away in mid-stream, after the trace id and one fragment
C22_Witness ==
    /\ chat_pc = "cancelled"
    /\ chat_tracing
    /\ Len(chat_chunks) = 1
    /\ Len(chat_frames) = 2
    /\ chat_done = 0

\* C28: for every sequence of text fragments the agent can generate, a
\* completed /v1/chat response holds exactly one frame equal to `data: [DONE]`,
\* it is the last frame, and no text frame is identical to it.
C28_MarkerFraming ==
    chat_pc = "finished"
    => (/\ Cardinality({i \in 1..Len(chat_frames) : chat_frames[i] = DoneFrame}) = 1
        /\ chat_frames[Len(chat_frames)] = DoneFrame
        /\ \A k \in 1..Len(chat_chunks) : TextFrame(chat_chunks[k]) # DoneFrame)

(***************************************************************************)
(*                           CLAIMS: job ledger                            *)
(***************************************************************************)

\* C7: a worker makes exactly one write that sets status to completed or failed
\* (at most one while it runs, exactly one when it has ended), and once a job is
\* completed or failed no step changes any field of its record.
C7_TerminalStatesFinal ==
    /\ [](\A j \in JobIds :
            /\ terminal_writes[j] <= 1
            /\ worker_pc[j] = "done" => terminal_writes[j] = 1
            /\ (j \in DOMAIN upload_jobs /\ IsTerminal(upload_jobs[j])) => worker_pc[j] = "done")
    /\ [][\A j \in DOMAIN upload_jobs :
            (upload_jobs[j].status \in {"completed", "failed"})
                => upload_jobs'[j] = upload_jobs[j]]_vars

\* one job has completed with its chunks counted and another has failed
C7_Witness ==
    \E j1, j2 \in DOMAIN upload_jobs :
        /\ upload_jobs[j1].status = "completed" /\ upload_jobs[j1].chunk_count = MaxChunks
        /\ upload_jobs[j2].status = "failed"
        /\ worker_pc[j1] = "done" /\ worker_pc[j2] = "done"

\* C8: with the worker task scheduled and each awaited call returning or
\* raising, every submitted job eventually is completed or failed; an exception
\* raised at any await of the worker ends in the failed write.
C8_NoJobStuckProcessing ==
    /\ \A j \in JobIds :
          (worker_pc[j] = "scheduled")
              ~> (j \in DOMAIN upload_jobs
                  /\ upload_jobs[j].status \in {"completed", "failed"})
    /\ [][\A j \in JobIds : \A e \in Errors :
            WorkerRaises(j, e) => upload_jobs'[j].status = "failed"]_vars

\* a worker failed after a progress update and its job reads failed
C8_Witness ==
    \E j \in DOMAIN upload_jobs :
        /\ worker_pc[j] = "done"
        /\ upload_jobs[j].status = "failed"
        /\ upload_jobs[j].message = [text |-> "Processing failed", args |-> <<>>]
        /\ worker_chunks[j] >= 1

\* The job has been submitted: its background task was created.
Submitted(job_id) == job_id \in JobIds /\ worker_pc[job_id] # "none"

\* The step is a job-status lookup that was answered.
Polled == poll' # poll

\* C23: every submitted job begins in processing: the upload handler writes the
\* record with status processing in the step that creates the worker, before
\* the worker's first update and before it answers, so a record is there for
\* the worker and for any poll of a submitted job, and a terminal status only
\* ever replaces a processing record.
C23_BeginsInProcessing ==
    /\ [][\A j \in JobIds :
            /\ (j \notin DOMAIN upload_jobs /\ j \in DOMAIN upload_jobs')
                  => (/\ upload_jobs'[j].status = "processing"
                      /\ worker_pc[j] = "none"
                      /\ worker_pc'[j] = "scheduled")
            /\ (worker_pc[j] = "none" /\ worker_pc'[j] # "none")
                  => (j \in DOMAIN upload_jobs' /\ upload_jobs'[j].status = "processing")
            /\ (/\ j \in DOMAIN upload_jobs'
                /\ IsTerminal(upload_jobs'[j])
                /\ ~(j \in DOMAIN upload_jobs /\ IsTerminal(upload_jobs[j])))
                  => (j \in DOMAIN upload_jobs /\ upload_jobs[j].status = "processing")]_vars
    /\ [](\A j \in JobIds : Submitted(j) => j \in DOMAIN upload_jobs)
    /\ [][(Polled /\ Submitted(poll'.job_id))
            => (/\ poll'.code = 200
                /\ poll'.status = upload_jobs[poll'.job_id].status)]_vars

\* a poll made after the upload was answered, before the worker has run, reads
\* processing
C23_Witness ==
    /\ poll.code = 200
    /\ poll.status = "processing"
    /\ poll.message = Msg("Starting PDF processing...")
    /\ worker_pc[poll.job_id] = "scheduled"

\* The chunk count of a job record, None when it has none.
CountOf(job) == Get(job, "chunk_count", NoneCount)

\* The fields a progress update may set.
ProgressFields == {"message", "source_id", "chunk_count"}

\* C24: while a job is in processing, a worker update sets only message,
\* source_id or chunk_count and leaves status and every other field of the
\* record as it was, and the job's chunk_count never decreases, in the record
\* and in successive polls, up to and including the completed write.
C24_ProgressAccumulates ==
    /\ [][\A j \in DOMAIN upload_jobs :
            (upload_jobs[j].status = "processing" /\ upload_jobs'[j] # upload_jobs[j])
            => IF upload_jobs'[j].status = "processing"
               THEN /\ DOMAIN upload_jobs[j] \subseteq DOMAIN upload_jobs'[j]
                    /\ (DOMAIN upload_jobs'[j]) \ (DOMAIN upload_jobs[j]) \subseteq ProgressFields
                    /\ \A f \in (DOMAIN upload_jobs[j]) \ ProgressFields :
                          upload_jobs'[j][f] = upload_jobs[j][f]
                    /\ CountOf(upload_jobs'[j]) >= CountOf(upload_jobs[j])
               ELSE upload_jobs'[j].status = "completed"
                       => CountOf(upload_jobs'[j]) >= CountOf(upload_jobs[j])]_vars
    /\ [][(/\ Polled
           /\ poll.code = 200 /\ poll'.code = 200
           /\ poll'.job_id = poll.job_id
           /\ poll'.status \in {"processing", "completed"})
            => poll'.chunk_count >= poll.chunk_count]_vars

\* a poll read one slide processed and the record has since counted a second,
\* its other fields kept
C24_Witness ==
    /\ poll.code = 200
    /\ poll.status = "processing"
    /\ poll.chunk_count = 1
    /\ upload_jobs[poll.job_id].status = "processing"
    /\ upload_jobs[poll.job_id].chunk_count = 2
    /\ upload_jobs[poll.job_id].source_type = "pdf"

\* C25: the job-status lookup answers 404 exactly for job identities that
\* were never submitted: no step removes a record from the ledger, a lookup of a
\* submitted identity answers 200 with its current record (the status, message,
\* source id, chunk count and error of it), and a lookup leaves the ledger as it
\* was.
C25_NotFoundOnlyIfNeverSubmitted ==
    /\ [][\A j \in DOMAIN upload_jobs : j \in DOMAIN upload_jobs']_vars
    /\ [][Polled
            => (/\ poll'.code \in {200, 404}
                /\ poll'.code = 404 <=> ~Submitted(poll'.job_id)
                /\ poll'.code = 200
                      => LET job == upload_jobs[poll'.job_id]
                         IN  /\ poll'.status = job.status
                             /\ poll'.message = job.message
                             /\ poll'.source_id = Get(job, "source_id", None)
                             /\ poll'.chunk_count = CountOf(job)
                             /\ ("error" \in DOMAIN job) => poll'.error = job.error
                /\ upload_jobs' = upload_jobs)]_vars

\* C29: whatever the interleaving of upload workers given the same source, at
\* most one of them inserts a source record: the sources table never holds two
\* rows of one source type and source id.
C29_OneSourceRecord ==
    \A i1, i2 \in DOMAIN sources :
        (/\ sources[i1].source_type = sources[i2].source_type
         /\ sources[i1].source_id = sources[i2].source_id)
        => i1 = i2

\* The source record of a job that failed after inserting it is in the table.
LeftBehind(i) ==
    /\ i \in DOMAIN sources
    /\ i \in DOMAIN upload_jobs
    /\ upload_jobs[i].status = "failed"
    /\ upload_jobs[i].message = Msg("Processing failed")

\* The source type and source id of a job's upload.
SourceOf(j) ==
    [source_type |-> worker_in[j].kind,
     source_id   |-> IF worker_in[j].kind = "youtube"
                     THEN ExtractVideoId(worker_in[j].source)
                     ELSE worker_in[j].source]

\* C30: a worker that fails after inserting its source record ends failed and
\* leaves the source record and the embeddings inserted so far in the store;
\* while that record is there, every upload job for the same source whose
\* existence check then runs ends failed as already processed, inserting
\* nothing.
C30_NoRollback ==
    /\ [][\A j \in JobIds : \A e \in Errors :
            WorkerRaises(j, e)
            => (/\ upload_jobs'[j].status = "failed"
                /\ sources' = sources
                /\ embeddings' = embeddings)]_vars
    /\ [][\A j \in JobIds :
            (/\ worker_pc[j] = "await_select"
             /\ worker_pc'[j] \notin {"await_select", "done"}
             /\ \E i \in DOMAIN sources :
                   /\ LeftBehind(i)
                   /\ sources[i].source_type = SourceOf(j).source_type
                   /\ sources[i].source_id = SourceOf(j).source_id)
            => FALSE]_vars
    /\ [][\A j \in JobIds :
            (/\ worker_pc[j] = "await_select"
             /\ worker_pc'[j] = "done"
             /\ upload_jobs'[j].message # Msg("Processing failed")
             /\ \E i \in DOMAIN sources :
                   /\ LeftBehind(i)
                   /\ sources[i].source_type = SourceOf(j).source_type
                   /\ sources[i].source_id = SourceOf(j).source_id)
            => (/\ upload_jobs'[j].status = "failed"
                /\ upload_jobs'[j].message.text \in {"PDF already processed",
                                                      "Video already processed"}
                /\ sources' = sources
                /\ embeddings' = embeddings)]_vars

\* a PDF job failed after its source record and one embedding were inserted,
\* both are still in the store, and a later job for the same file has ended
\* failed as already processed
C30_Witness ==
    /\ LeftBehind("job1")
    /\ "job1" \in DOMAIN embeddings
    /\ embeddings["job1"] = 1
    /\ "job2" \in DOMAIN upload_jobs
    /\ upload_jobs["job2"].status = "failed"
    /\ upload_jobs["job2"].message = Msg("PDF already processed")
    /\ "job2" \notin DOMAIN sources

====
